---- MODULE Spec2Model ----
\* A state-machine model of libpod's SQLite-backed state store
\* (libpod/sqlite_state.go): the tables of the database, the store handle's
\* open flag, the container / volume / pod handles of each process, and one
\* action per public operation of SQLiteState.
EXTENDS Integers, Sequences, FiniteSets, TLC

VARIABLES
    db,      \* the committed database: a record of tables (sets of rows)
    tx,      \* tx[p]: the open transaction of process p (its private view)
    pc,      \* pc[p]: where process p stands inside a multi-statement handler
    valid,   \* valid[p]: SQLiteState.valid of the store object of process p
    conn,    \* conn[p]: the sql.DB of process p, "open" or "closed"
    hs,      \* hs[p][h]: container handle h of process p: valid flag and state
    vs,      \* vs[p][h]: volume handle h of process p: valid flag and state
    ps,      \* ps[p][h]: the valid flag of pod handle h of process p
    last,    \* the call that returned last: its process, arguments and result
    pre,     \* the committed database when the last call began
    now,     \* the wall clock (time.Now), in minutes
    rt,      \* rt[p]: the runtime configuration the store of p was built with
    active   \* the processes that use the store in this behaviour

vars == <<db, tx, pc, valid, conn, hs, vs, ps, last, pre, now, rt, active>>

----------------------------------------------------------------------------
\* The universe the inputs are drawn from.  Identifiers and names are
\* sequences of one-character strings, so that prefixes and SQL LIKE patterns
\* are computed character by character.

Procs == {"p1", "p2"}

NoText == <<>>

IdWeb == <<"a", "b", "c", "1", "2", "3">>
IdApp == <<"a", "b", "c", "4", "5", "6">>
IdAlias == <<"d", "e", "f">>
IdMember == <<"m", "7">>
NameVol == <<"v">>
IdPod == <<"p", "9">>
IdOtherPod == <<"q", "7">>

\* Six container configs: a plain one, one that depends on the first and
\* uses the volume, one whose name is the ID of the first, one that belongs
\* to a pod, one that has the name of the first under an ID of its own, and
\* one that belongs to another pod than the one the process holds.
CfgWeb == [ID |-> IdWeb, Name |-> <<"w", "e", "b">>, Pod |-> NoText,
           Dependencies |-> {}, NamedVolumes |-> {},
           NetMode |-> "bridge", Networks |-> {}]
CfgApp == [CfgWeb EXCEPT !.ID = IdApp, !.Name = <<"a", "p", "p">>,
                         !.Dependencies = {IdWeb}, !.NamedVolumes = {NameVol},
                         !.NetMode = "host"]
CfgAlias == [CfgWeb EXCEPT !.ID = IdAlias, !.Name = IdWeb]
CfgMember == [CfgWeb EXCEPT !.ID = IdMember, !.Name = <<"m">>, !.Pod = IdPod]
CfgTwin == [CfgWeb EXCEPT !.ID = <<"t", "8">>]
CfgStray == [CfgWeb EXCEPT !.ID = <<"s", "5">>, !.Name = <<"s">>,
                           !.Pod = IdOtherPod]

\* The container handles a process holds, each built around one config.
CtrHandles == {"web", "app"}
AllCtrHandles == CtrHandles \cup {"alias", "member", "twin", "stray"}
CtrConfigOf(h) ==
    CASE h = "web" -> CfgWeb
      [] h = "app" -> CfgApp
      [] h = "alias" -> CfgAlias
      [] h = "member" -> CfgMember
      [] h = "twin" -> CfgTwin
      [] h = "stray" -> CfgStray

VolHandles == {"vol"}
VolConfigOf(h) == [Name |-> NameVol, StorageID |-> NoText]

PodHandles == {"pod"}
PodIDOf(h) == IdPod

\* ContainerState: a live-process field, a transient mount flag and a
\* historical field.
NewContainerState == [PID |-> 0, Mounted |-> FALSE, ExitCode |-> 0]
RunningState == [PID |-> 1, Mounted |-> TRUE, ExitCode |-> 0]
StoppedState == [PID |-> 0, Mounted |-> TRUE, ExitCode |-> 1]
CtrStates == {NewContainerState, RunningState, StoppedState}

NewVolumeState == [MountCount |-> 0, NeedsCopyUp |-> FALSE]
MountedVolumeState == [MountCount |-> 1, NeedsCopyUp |-> TRUE]
VolStates == {NewVolumeState, MountedVolumeState}

\* A runtime's configuration: the engine directories and the storage
\* configuration.  A path is the sequence of its elements; the empty path is
\* the empty string.  An empty storage field means "use the default".
RuntimeA ==
    [StaticDir |-> <<"lib">>, TmpDir |-> <<"tmp">>, VolumePath |-> <<"vols">>,
     GraphRoot |-> <<"graph">>, RunRoot |-> <<"run">>,
     GraphDriverName |-> "overlay"]
RuntimeB == [RuntimeA EXCEPT !.GraphRoot = <<"graph2">>]
RuntimeC == [RuntimeA EXCEPT !.TmpDir = <<"tmp2">>, !.RunRoot = <<"run2">>]
RuntimeDefaults ==
    [RuntimeA EXCEPT !.GraphRoot = <<>>, !.RunRoot = <<>>,
                     !.GraphDriverName = ""]
Runtimes == {RuntimeA, RuntimeB, RuntimeC, RuntimeDefaults}

\* storage.DefaultStoreOptions and runtime.GOOS.
StoreDefaults ==
    [GraphRoot |-> <<"var", "storage">>, RunRoot |-> <<"run", "storage">>,
     GraphDriverName |-> "vfs"]
GOOS == "linux"

\* filepath.Clean: drops empty and "." elements; the empty string becomes ".".
Clean(path) ==
    IF path = <<>> THEN <<".">>
    ELSE SelectSeq(path, LAMBDA e : e \notin {"", "."})

----------------------------------------------------------------------------
\* Serialisation.  The JSON column of a row holds the encoded struct; an
\* empty text is not valid JSON and does not decode.

MarshalCtrState(s) == <<s.PID, s.Mounted, s.ExitCode>>
UnmarshalCtrState(j) == [PID |-> j[1], Mounted |-> j[2], ExitCode |-> j[3]]

MarshalVolState(s) == <<s.MountCount, s.NeedsCopyUp>>
UnmarshalVolState(j) == [MountCount |-> j[1], NeedsCopyUp |-> j[2]]

MarshalCtrConfig(c) ==
    <<c.ID, c.Name, c.Pod, c.Dependencies, c.NamedVolumes, c.NetMode,
      c.Networks>>
UnmarshalCtrConfig(j) ==
    [ID |-> j[1], Name |-> j[2], Pod |-> j[3],
     Dependencies |-> j[4], NamedVolumes |-> j[5],
     NetMode |-> j[6], Networks |-> j[7]]

MarshalVolConfig(c) == <<c.Name, c.StorageID>>
UnmarshalVolConfig(j) == [Name |-> j[1], StorageID |-> j[2]]

----------------------------------------------------------------------------
\* The database.  Every table is a set of rows; the constraints of the
\* schema (primary keys, unique columns, foreign keys and their cascades) are
\* enforced by the statements below, as SQLite enforces them with
\* PRAGMA foreign_keys = ON.

EmptyDB ==
    [ContainerConfig |-> {}, ContainerState |-> {},
     PodConfig |-> {}, PodState |-> {},
     VolumeConfig |-> {}, VolumeState |-> {},
     DBConfig |-> {},
     ContainerDependency |-> {}, ContainerVolume |-> {},
     ContainerExecSession |-> {}, ContainerExitCode |-> {}]

\* The outcome of one statement: whether it succeeded, the database after
\* it, and the number of rows it affected.
StmtOk(d, n) == [ok |-> TRUE, db |-> d, n |-> n]
StmtErr(d) == [ok |-> FALSE, db |-> d, n |-> 0]

Col(rows, c) == {r[c] : r \in rows}

\* INSERT INTO ContainerConfig: ID is the primary key, Name is unique, a
\* non-null PodID references PodConfig(ID).
InsertContainerConfig(d, row) ==
    IF \/ row.ID \in Col(d.ContainerConfig, "ID")
       \/ row.Name \in Col(d.ContainerConfig, "Name")
       \/ (row.PodID # NoText /\ row.PodID \notin Col(d.PodConfig, "ID"))
    THEN StmtErr(d)
    ELSE StmtOk([d EXCEPT !.ContainerConfig = @ \cup {row}], 1)

\* INSERT INTO ContainerState: ID is the primary key and references
\* ContainerConfig(ID).
InsertContainerState(d, row) ==
    IF \/ row.ID \in Col(d.ContainerState, "ID")
       \/ row.ID \notin Col(d.ContainerConfig, "ID")
    THEN StmtErr(d)
    ELSE StmtOk([d EXCEPT !.ContainerState = @ \cup {row}], 1)

\* INSERT INTO ContainerDependency: both columns reference
\* ContainerConfig(ID).
InsertContainerDependency(d, row) ==
    IF \/ row \in d.ContainerDependency
       \/ row.ID \notin Col(d.ContainerConfig, "ID")
       \/ row.DependencyID \notin Col(d.ContainerConfig, "ID")
    THEN StmtErr(d)
    ELSE StmtOk([d EXCEPT !.ContainerDependency = @ \cup {row}], 1)

\* INSERT INTO ContainerVolume: ContainerID references ContainerConfig(ID),
\* VolumeName references VolumeConfig(Name).
InsertContainerVolume(d, row) ==
    IF \/ row \in d.ContainerVolume
       \/ row.ContainerID \notin Col(d.ContainerConfig, "ID")
       \/ row.VolumeName \notin Col(d.VolumeConfig, "Name")
    THEN StmtErr(d)
    ELSE StmtOk([d EXCEPT !.ContainerVolume = @ \cup {row}], 1)

\* A variant whose DELETE does not cascade.
DeleteContainerConfigOnly(d, id) ==
    LET gone == {r \in d.ContainerConfig : r.ID = id} IN
    StmtOk([d EXCEPT !.ContainerConfig = @ \ gone], Cardinality(gone))

\* DELETE FROM ContainerConfig WHERE ID=?: cascades to the state row and to
\* the relationship rows that reference the container.
DeleteContainerConfig(d, id) ==
    LET gone == {r \in d.ContainerConfig : r.ID = id} IN
    IF gone = {} THEN StmtOk(d, 0)
    ELSE StmtOk(
        [d EXCEPT
           !.ContainerConfig = @ \ gone,
           !.ContainerState = {r \in @ : r.ID # id},
           !.ContainerDependency =
               {r \in @ : r.ID # id /\ r.DependencyID # id},
           !.ContainerVolume = {r \in @ : r.ContainerID # id}],
        Cardinality(gone))

\* INSERT INTO VolumeConfig: Name is the primary key.
InsertVolumeConfig(d, row) ==
    IF row.Name \in Col(d.VolumeConfig, "Name")
    THEN StmtErr(d)
    ELSE StmtOk([d EXCEPT !.VolumeConfig = @ \cup {row}], 1)

\* INSERT INTO VolumeState: Name is the primary key and references
\* VolumeConfig(Name).
\* A variant that reports success and stores nothing.
InsertVolumeStateLost(d, row) == StmtOk(d, 1)

InsertVolumeState(d, row) ==
    IF \/ row.Name \in Col(d.VolumeState, "Name")
       \/ row.Name \notin Col(d.VolumeConfig, "Name")
    THEN StmtErr(d)
    ELSE StmtOk([d EXCEPT !.VolumeState = @ \cup {row}], 1)

\* DELETE FROM VolumeConfig WHERE Name=?: cascades to the state row and to
\* the usage edges that name the volume.
DeleteVolumeConfig(d, name) ==
    LET gone == {r \in d.VolumeConfig : r.Name = name} IN
    IF gone = {} THEN StmtOk(d, 0)
    ELSE StmtOk(
        [d EXCEPT
           !.VolumeConfig = @ \ gone,
           !.VolumeState = {r \in @ : r.Name # name},
           !.ContainerVolume = {r \in @ : r.VolumeName # name}],
        Cardinality(gone))

\* UPDATE ... SET JSON=? WHERE <key>=?  `head` is the statement's text before
\* SET, as tokens.  SQLite's grammar wants UPDATE followed by the name of a
\* table; any other head does not prepare ("syntax error").
UpdateHeadOK(d, head) ==
    Len(head) = 2 /\ head[1] = "UPDATE" /\ head[2] \in DOMAIN d

\* A variant of the UPDATE without its WHERE clause.
ExecUpdateJSONEveryRow(d, head, key, val, json) ==
    IF ~UpdateHeadOK(d, head) THEN StmtErr(d)
    ELSE LET t == head[2]
             hit == {r \in d[t] : r[key] = val}
         IN StmtOk([d EXCEPT ![t] = {[r EXCEPT !.JSON = json] : r \in @}],
                   Cardinality(hit))

ExecUpdateJSON(d, head, key, val, json) ==
    IF ~UpdateHeadOK(d, head) THEN StmtErr(d)
    ELSE LET t == head[2]
             hit == {r \in d[t] : r[key] = val}
         IN StmtOk([d EXCEPT ![t] =
                        (@ \ hit) \cup {[r EXCEPT !.JSON = json] : r \in hit}],
                   Cardinality(hit))

\* DELETE FROM <table> WHERE <col>=?  on a table without dependants; a table
\* the schema does not have makes the statement fail ("no such table").
ExecDeleteWhere(d, table, col, val) ==
    IF table \notin DOMAIN d THEN StmtErr(d)
    ELSE LET gone == {r \in d[table] : r[col] = val} IN
         StmtOk([d EXCEPT ![table] = @ \ gone], Cardinality(gone))

\* INSERT INTO ContainerExecSession: ID is the primary key.
InsertExecSession(d, row) ==
    IF row.ID \in Col(d.ContainerExecSession, "ID")
    THEN StmtErr(d)
    ELSE StmtOk([d EXCEPT !.ContainerExecSession = @ \cup {row}], 1)

\* INSERT INTO ContainerExitCode: ID is the primary key.
InsertExitCode(d, row) ==
    IF row.ID \in Col(d.ContainerExitCode, "ID")
    THEN StmtErr(d)
    ELSE StmtOk([d EXCEPT !.ContainerExitCode = @ \cup {row}], 1)

\* DELETE FROM ContainerExitCode WHERE (Timestamp <= ?)
DeleteExitCodesUpTo(d, t) ==
    LET gone == {r \in d.ContainerExitCode : r.Timestamp <= t} IN
    StmtOk([d EXCEPT !.ContainerExitCode = @ \ gone], Cardinality(gone))

\* DELETE FROM ContainerExitCode;   DELETE FROM ContainerExecSession;
DeleteAllExitCodes(d) ==
    StmtOk([d EXCEPT !.ContainerExitCode = {}],
           Cardinality(d.ContainerExitCode))

\* A variant that deletes a single row.
DeleteOneExecSession(d) ==
    IF d.ContainerExecSession = {} THEN StmtOk(d, 0)
    ELSE StmtOk([d EXCEPT !.ContainerExecSession =
                     @ \ {CHOOSE r \in @ : TRUE}], 1)

DeleteAllExecSessions(d) ==
    StmtOk([d EXCEPT !.ContainerExecSession = {}],
           Cardinality(d.ContainerExecSession))

\* A variant of the INSERT into a table without a key.
InsertDBConfigNoKey(d, row) ==
    StmtOk([d EXCEPT !.DBConfig = @ \cup {row}], 1)

\* INSERT INTO DBConfig: ID is the primary key (and the row inserted always
\* has ID 1).
InsertDBConfig(d, row) ==
    IF row.ID \in Col(d.DBConfig, "ID")
    THEN StmtErr(d)
    ELSE StmtOk([d EXCEPT !.DBConfig = @ \cup {row}], 1)

----------------------------------------------------------------------------
\* Processes, calls and transactions.

IdlePC == <<"idle", 0, "-">>
Idle(p) == p \in active /\ pc[p] = IdlePC

NoTx == [st |-> "none", view |-> EmptyDB]

\* A call returns: the calling process, the call's name and argument, the
\* error ("nil" for success), the returned value, whether the call issued
\* any statement against the database, and whether it repeats the call that
\* returned just before it (the same operation, which succeeded).
Result(p, op, arg, err, out, q, rep) ==
    [p |-> p, op |-> op, arg |-> arg, err |-> err, out |-> out, q |-> q,
     rep |-> rep]

Return(p, op, arg, err, out, q) ==
    /\ last' = Result(p, op, arg, err, out, q,
                      last.op = op /\ last.err = "nil")
    /\ pc' = [pc EXCEPT ![p] = IdlePC]

Goto(p, op, step, arg) == pc' = [pc EXCEPT ![p] = <<op, step, arg>>]

At(p, op, step) == p \in active /\ pc[p][1] = op /\ pc[p][2] = step

\* Another process holds SQLite's write lock (it has written inside a
\* transaction it has not yet ended).
Locked(p) == \E q \in Procs \ {p} : tx[q].st = "write"

\* sql.DB.Begin: a deferred transaction; it takes no lock and no snapshot.
TxBegin(p) == tx' = [tx EXCEPT ![p] = [st |-> "begun", view |-> EmptyDB]]

\* What a statement of p's transaction reads: the transaction's snapshot
\* once it has one, else the committed database.
TxView(p) == IF tx[p].st \in {"read", "write"} THEN tx[p].view ELSE db

\* A read inside the transaction pins the snapshot.
TxRead(p) ==
    tx' = [tx EXCEPT ![p] =
              [st |-> IF tx[p].st = "write" THEN "write" ELSE "read",
               view |-> TxView(p)]]

\* A write inside the transaction needs the write lock: SQLite refuses it
\* (SQLITE_BUSY) while another connection holds the lock, or when the
\* transaction's snapshot is no longer the latest committed database.
TxCanWrite(p) ==
    /\ ~Locked(p)
    /\ tx[p].st = "read" => tx[p].view = db

TxWrite(p, d) == tx' = [tx EXCEPT ![p] = [st |-> "write", view |-> d]]

\* tx.Commit publishes the transaction's view; tx.Rollback discards it.
TxCommit(p) ==
    /\ db' = IF tx[p].st = "write" THEN tx[p].view ELSE db
    /\ tx' = [tx EXCEPT ![p] = NoTx]

TxRollback(p) == tx' = [tx EXCEPT ![p] = NoTx]

\* A statement can succeed only on an open connection.
Up(p) == conn[p] = "open"

\* The outcomes of a fallible step: it succeeds (only on an open
\* connection) or the driver reports an error.
Outcomes(p) == IF Up(p) THEN {TRUE, FALSE} ELSE {FALSE}

\* What the handlers leave alone unless they say otherwise.
Env == <<valid, conn, ps, now, rt, active>>

\* The first step of a handler that runs one transaction: the early returns
\* (`chk` is the first failing check's error, or "pass"), then Begin.
BeginStep(p, op, arg, chk) ==
    /\ Idle(p)
    /\ pre' = db
    /\ UNCHANGED db
    /\ IF chk # "pass" THEN
           /\ Return(p, op, arg, chk, {}, FALSE)
           /\ UNCHANGED tx
       ELSE \E ok \in Outcomes(p) :
           IF ok THEN
               /\ TxBegin(p)
               /\ Goto(p, op, 1, arg)
               /\ UNCHANGED last
           ELSE
               /\ Return(p, op, arg, "sqlError", {}, TRUE)
               /\ UNCHANGED tx

\* One tx.Exec of a handler: `r` is the statement's outcome on the
\* transaction's view.  Any failure returns (errc when the statement itself
\* was refused) and the deferred function rolls the transaction back.
WriteStep(p, r, errc) ==
    /\ UNCHANGED <<db, pre>>
    /\ \E ok \in Outcomes(p) :
           IF ok /\ TxCanWrite(p) /\ r.ok THEN
               /\ TxWrite(p, r.db)
               /\ Goto(p, pc[p][1], pc[p][2] + 1, pc[p][3])
               /\ UNCHANGED last
           ELSE
               /\ TxRollback(p)
               /\ Return(p, pc[p][1], pc[p][3],
                         IF ok /\ TxCanWrite(p) THEN errc ELSE "sqlError",
                         {}, TRUE)

\* A variant whose failed Commit has published the transaction all the same.
CommitStepLeaky(p) ==
    /\ UNCHANGED pre
    /\ \E ok \in Outcomes(p) :
           /\ TxCommit(p)
           /\ Return(p, pc[p][1], pc[p][3], IF ok THEN "nil" ELSE "sqlError",
                     {}, TRUE)

\* tx.Commit(), and on its failure the deferred tx.Rollback().
CommitStep(p) ==
    /\ UNCHANGED pre
    /\ \E ok \in Outcomes(p) :
           IF ok THEN
               /\ TxCommit(p)
               /\ Return(p, pc[p][1], pc[p][3], "nil", {}, TRUE)
           ELSE
               /\ TxRollback(p)
               /\ UNCHANGED db
               /\ Return(p, pc[p][1], pc[p][3], "sqlError", {}, TRUE)

----------------------------------------------------------------------------
\* Volumes.

VolumeConfigRow(c) ==
    [Name |-> c.Name, StorageID |-> c.StorageID, JSON |-> MarshalVolConfig(c)]

VolumeStateRow(c, st) == [Name |-> c.Name, JSON |-> MarshalVolState(st)]

AddVolumeChecks(p, h) ==
    IF ~valid[p] THEN "ErrDBClosed"
    ELSE IF ~vs[p][h].valid THEN "ErrVolumeRemoved"
    ELSE "pass"

\* AddVolume, up to and including Begin.
AddVolumeBegin(p, h) ==
    /\ BeginStep(p, "AddVolume", h, AddVolumeChecks(p, h))
    /\ UNCHANGED <<Env, hs, vs>>

\* tx.Exec("INSERT INTO VolumeConfig VALUES (?, ?, ?);")
AddVolumeInsertConfig(p) ==
    /\ At(p, "AddVolume", 1)
    /\ WriteStep(p, InsertVolumeConfig(TxView(p),
                        VolumeConfigRow(VolConfigOf(pc[p][3]))),
                 "sqlConstraint")
    /\ UNCHANGED <<Env, hs, vs>>

\* tx.Exec("INSERT INTO VolumeState VALUES (?, ?);")
AddVolumeInsertState(p) ==
    /\ At(p, "AddVolume", 2)
    /\ WriteStep(p, InsertVolumeState(TxView(p),
                        VolumeStateRow(VolConfigOf(pc[p][3]),
                                       vs[p][pc[p][3]].state)),
                 "sqlConstraint")
    /\ UNCHANGED <<Env, hs, vs>>

AddVolumeCommit(p) ==
    /\ At(p, "AddVolume", 3)
    /\ CommitStep(p)
    /\ UNCHANGED <<Env, hs, vs>>

\* The containers a usage edge of d binds to the volume.
\* A variant whose query finds no row.
VolumeUsersNone(d, name) == {}

VolumeUsers(d, name) ==
    {r.ContainerID : r \in {e \in d.ContainerVolume : e.VolumeName = name}}

RemoveVolumeChecks(p, h) == IF ~valid[p] THEN "ErrDBClosed" ELSE "pass"

\* RemoveVolume, up to and including Begin.
RemoveVolumeBegin(p, h) ==
    /\ BeginStep(p, "RemoveVolume", h, RemoveVolumeChecks(p, h))
    /\ UNCHANGED <<Env, hs, vs>>

\* tx.Query("SELECT ContainerID FROM ContainerVolume WHERE VolumeName=?;")
\* and the in-use check on its rows.
RemoveVolumeQueryUsers(p) ==
    /\ At(p, "RemoveVolume", 1)
    /\ UNCHANGED <<db, pre, Env, hs, vs>>
    /\ LET h == pc[p][3]
           ctrs == VolumeUsers(TxView(p), VolConfigOf(h).Name)
       IN \E ok \in Outcomes(p) :
           IF ~ok THEN
               /\ TxRollback(p)
               /\ Return(p, "RemoveVolume", h, "sqlError", {}, TRUE)
           ELSE IF ctrs # {} THEN
               /\ TxRollback(p)
               /\ Return(p, "RemoveVolume", h, "ErrVolumeBeingUsed", ctrs, TRUE)
           ELSE
               /\ TxRead(p)
               /\ Goto(p, "RemoveVolume", 2, h)
               /\ UNCHANGED last

\* tx.Exec("DELETE FROM VolumeConfig WHERE Name=?;")
RemoveVolumeDeleteConfig(p) ==
    /\ At(p, "RemoveVolume", 2)
    /\ WriteStep(p, DeleteVolumeConfig(TxView(p), VolConfigOf(pc[p][3]).Name),
                 "sqlError")
    /\ UNCHANGED <<Env, hs, vs>>

\* tx.Exec("DELETE FROM VolumeState WHERE Name=?;")
RemoveVolumeDeleteState(p) ==
    /\ At(p, "RemoveVolume", 3)
    /\ WriteStep(p, ExecDeleteWhere(TxView(p), "VolumeState", "Name",
                                    VolConfigOf(pc[p][3]).Name),
                 "sqlError")
    /\ UNCHANGED <<Env, hs, vs>>

RemoveVolumeCommit(p) ==
    /\ At(p, "RemoveVolume", 4)
    /\ CommitStep(p)
    /\ UNCHANGED <<Env, hs, vs>>

----------------------------------------------------------------------------
\* Containers: adding and removing.

ContainerConfigRow(c) ==
    [ID |-> c.ID, Name |-> c.Name, PodID |-> c.Pod, JSON |-> MarshalCtrConfig(c)]

ContainerStateRow(c, st) == [ID |-> c.ID, JSON |-> MarshalCtrState(st)]

\* A variant without the test of the Pod reference.
AddContainerChecksAnyPod(p, h) ==
    IF ~valid[p] THEN "ErrDBClosed"
    ELSE IF ~hs[p][h].valid THEN "ErrCtrRemoved"
    ELSE "pass"

AddContainerChecks(p, h) ==
    IF ~valid[p] THEN "ErrDBClosed"
    ELSE IF ~hs[p][h].valid THEN "ErrCtrRemoved"
    ELSE IF CtrConfigOf(h).Pod # NoText THEN "ErrInvalidArg"
    ELSE "pass"

\* A variant without the comparison of the Pod reference with the pod's ID.
AddContainerToPodChecksAnyPod(p, pod, h) ==
    IF ~valid[p] THEN "ErrDBClosed"
    ELSE IF ~ps[p][pod] THEN "ErrPodRemoved"
    ELSE IF ~hs[p][h].valid THEN "ErrCtrRemoved"
    ELSE "pass"

AddContainerToPodChecks(p, pod, h) ==
    IF ~valid[p] THEN "ErrDBClosed"
    ELSE IF ~ps[p][pod] THEN "ErrPodRemoved"
    ELSE IF ~hs[p][h].valid THEN "ErrCtrRemoved"
    ELSE IF CtrConfigOf(h).Pod # PodIDOf(pod) THEN "ErrNoSuchCtr"
    ELSE "pass"

RemoveContainerChecks(p, h) ==
    IF ~valid[p] THEN "ErrDBClosed"
    ELSE IF CtrConfigOf(h).Pod # NoText THEN "ErrPodExists"
    ELSE "pass"

RemoveContainerFromPodChecks(p, pod, h) ==
    IF ~valid[p] THEN "ErrDBClosed"
    ELSE IF ~ps[p][pod] THEN "ErrPodRemoved"
    ELSE IF CtrConfigOf(h).Pod = NoText THEN "ErrNoSuchPod"
    ELSE IF CtrConfigOf(h).Pod # PodIDOf(pod) THEN "ErrInvalidArg"
    ELSE "pass"

\* AddContainer and AddContainerToPod: the checks, then addContainer's Begin.
AddContainer(p, h) ==
    /\ BeginStep(p, "AddContainer", h, AddContainerChecks(p, h))
    /\ UNCHANGED <<Env, hs, vs>>

AddContainerToPod(p, pod, h) ==
    /\ BeginStep(p, "AddContainerToPod", h, AddContainerToPodChecks(p, pod, h))
    /\ UNCHANGED <<Env, hs, vs>>

InAddContainer(p, step) ==
    At(p, "AddContainer", step) \/ At(p, "AddContainerToPod", step)

\* addContainer: the Config row.  A taken ID or Name is the already-exists
\* error; a Pod reference that names no pod is refused by the foreign key.
addContainerConfig(p) ==
    /\ InAddContainer(p, 1)
    /\ LET c == CtrConfigOf(pc[p][3])
           d == TxView(p)
       IN WriteStep(p, InsertContainerConfig(d, ContainerConfigRow(c)),
                    IF \/ c.ID \in Col(d.ContainerConfig, "ID")
                       \/ c.Name \in Col(d.ContainerConfig, "Name")
                    THEN "ErrCtrExists" ELSE "ErrNoSuchPod")
    /\ UNCHANGED <<Env, hs, vs>>

\* addContainer: the State row, holding the handle's state.
addContainerState(p) ==
    /\ InAddContainer(p, 2)
    /\ WriteStep(p, InsertContainerState(TxView(p),
                        ContainerStateRow(CtrConfigOf(pc[p][3]),
                                          hs[p][pc[p][3]].state)),
                 "ErrCtrExists")
    /\ UNCHANGED <<Env, hs, vs>>

\* The relationship rows of a container: one dependency edge for each
\* container it depends on, one usage edge for each named volume it mounts.
DependencyRows(c) == {[ID |-> c.ID, DependencyID |-> x] : x \in c.Dependencies}
VolumeRows(c) == {[ContainerID |-> c.ID, VolumeName |-> x] : x \in c.NamedVolumes}

\* The INSERTs of the edges, one statement per row: each is checked against
\* the transaction's view, and the first refused one fails the handler.
InsertEdges(d, c) ==
    IF /\ \A row \in DependencyRows(c) : InsertContainerDependency(d, row).ok
       /\ \A row \in VolumeRows(c) : InsertContainerVolume(d, row).ok
    THEN StmtOk([d EXCEPT !.ContainerDependency = @ \cup DependencyRows(c),
                          !.ContainerVolume = @ \cup VolumeRows(c)],
                Cardinality(DependencyRows(c)) + Cardinality(VolumeRows(c)))
    ELSE StmtErr(d)

addContainerEdges(p) ==
    /\ InAddContainer(p, 3)
    /\ WriteStep(p, InsertEdges(TxView(p), CtrConfigOf(pc[p][3])),
                 "sqlConstraint")
    /\ UNCHANGED <<Env, hs, vs>>

addContainerCommit(p) ==
    /\ InAddContainer(p, 4)
    /\ CommitStep(p)
    /\ UNCHANGED <<Env, hs, vs>>

\* The containers that have a dependency edge on the container.
\* A variant whose query finds no row.
DependentsNone(d, id) == {}

Dependents(d, id) ==
    {r.ID : r \in {e \in d.ContainerDependency : e.DependencyID = id}}

\* RemoveContainer and RemoveContainerFromPod: the checks, then
\* removeContainer's Begin.
RemoveContainer(p, h) ==
    /\ BeginStep(p, "RemoveContainer", h, RemoveContainerChecks(p, h))
    /\ UNCHANGED <<Env, hs, vs>>

RemoveContainerFromPod(p, pod, h) ==
    /\ BeginStep(p, "RemoveContainerFromPod", h,
                 RemoveContainerFromPodChecks(p, pod, h))
    /\ UNCHANGED <<Env, hs, vs>>

InRemoveContainer(p, step) ==
    At(p, "RemoveContainer", step) \/ At(p, "RemoveContainerFromPod", step)

\* removeContainer: the dependency guard, read inside the transaction.
removeContainerGuard(p) ==
    /\ InRemoveContainer(p, 1)
    /\ UNCHANGED <<db, pre, Env, hs, vs>>
    /\ LET h == pc[p][3]
           deps == Dependents(TxView(p), CtrConfigOf(h).ID)
       IN \E ok \in Outcomes(p) :
           IF ~ok THEN
               /\ TxRollback(p)
               /\ Return(p, pc[p][1], h, "sqlError", {}, TRUE)
           ELSE IF deps # {} THEN
               /\ TxRollback(p)
               /\ Return(p, pc[p][1], h, "ErrDepExists", deps, TRUE)
           ELSE
               /\ TxRead(p)
               /\ Goto(p, pc[p][1], 2, h)
               /\ UNCHANGED last

\* removeContainer: delete the Config row; the State row and the container's
\* relationship rows go with it.
removeContainerDelete(p) ==
    /\ InRemoveContainer(p, 2)
    /\ WriteStep(p, DeleteContainerConfig(TxView(p), CtrConfigOf(pc[p][3]).ID),
                 "sqlError")
    /\ UNCHANGED <<Env, hs, vs>>

removeContainerCommit(p) ==
    /\ InRemoveContainer(p, 3)
    /\ CommitStep(p)
    /\ UNCHANGED <<Env, hs, vs>>

----------------------------------------------------------------------------
\* Handlers that issue at most one transaction of one statement, or only
\* reads: each is one action.  `f` numbers the fallible call of the handler
\* that the driver fails (Begin, Exec or Query, RowsAffected, Commit, in the
\* order the handler makes them); 0 fails none.

\* The faults possible for a handler that reads: on a closed connection its
\* first call fails.
RFaults(p, n) == IF Up(p) THEN 0..n ELSE {1}

\* The faults possible for a handler that writes: while another process
\* holds the write lock it cannot succeed.
WFaults(p, n) ==
    IF ~Up(p) THEN {1} ELSE IF Locked(p) THEN 1..n ELSE 0..n

\* What a handler did: the error, the returned value, whether it issued a
\* statement, the committed database it leaves, and the handle it was given.
Done(err, out, q, d, h) == [err |-> err, out |-> out, q |-> q, db |-> d, h |-> h]

Invalidated(h) == [h EXCEPT !.valid = FALSE]

Finish(p, op, arg, r) ==
    /\ Idle(p)
    /\ pre' = db
    /\ db' = r.db
    /\ Return(p, op, arg, r.err, r.out, r.q)
    /\ UNCHANGED tx

\* A variant that does not look at the number of rows the UPDATE changed.
SaveContainerDoUnchecked(d, open, h, id, f) ==
    IF ~open THEN Done("ErrDBClosed", {}, FALSE, d, h)
    ELSE IF ~h.valid THEN Done("ErrCtrRemoved", {}, FALSE, d, h)
    ELSE IF f \in 1..4 THEN Done("sqlError", {}, TRUE, d, h)
    ELSE Done("nil", {}, TRUE,
              ExecUpdateJSON(d, <<"UPDATE", "ContainerState">>, "ID", id,
                             MarshalCtrState(h.state)).db, h)

\* SaveContainer on handle `h` (its valid flag and in-memory state) of the
\* container `id`.
SaveContainerDo(d, open, h, id, f) ==
    IF ~open THEN Done("ErrDBClosed", {}, FALSE, d, h)
    ELSE IF ~h.valid THEN Done("ErrCtrRemoved", {}, FALSE, d, h)
    ELSE IF f = 1 THEN Done("sqlError", {}, TRUE, d, h)
    ELSE LET r == ExecUpdateJSON(d, <<"UPDATE", "ContainerState">>, "ID", id,
                                 MarshalCtrState(h.state))
         IN IF f = 2 \/ ~r.ok THEN Done("sqlError", {}, TRUE, d, h)
            ELSE IF f = 3 THEN Done("sqlError", {}, TRUE, d, h)
            ELSE IF r.n = 0 THEN Done("ErrNoSuchCtr", {}, TRUE, d, Invalidated(h))
            ELSE IF f = 4 THEN Done("sqlError", {}, TRUE, d, h)
            ELSE Done("nil", {}, TRUE, r.db, h)

\* The caller hands in the handle with the state it wants saved.
SaveContainer(p, h, st) ==
    \E f \in WFaults(p, 4) :
        LET r == SaveContainerDo(db, valid[p], [hs[p][h] EXCEPT !.state = st],
                                 CtrConfigOf(h).ID, f)
        IN /\ Finish(p, "SaveContainer", h, r)
           /\ hs' = [hs EXCEPT ![p][h] = r.h]
           /\ UNCHANGED <<Env, vs>>

\* json.Unmarshal of a JSON column; the empty text does not decode.
Decodes(j) == j # <<>>

\* A variant that leaves the handle live when the row is gone.
UpdateContainerDoStaysLive(d, open, h, id, f) ==
    IF ~open THEN Done("ErrDBClosed", {}, FALSE, d, h)
    ELSE IF ~h.valid THEN Done("ErrCtrRemoved", {}, FALSE, d, h)
    ELSE LET rows == {r \in d.ContainerState : r.ID = id} IN
         IF f = 1 THEN Done("jsonError", {}, TRUE, d, h)
         ELSE IF rows = {} THEN Done("ErrNoSuchCtr", {}, TRUE, d, h)
         ELSE Done("nil", {}, TRUE, d,
                   [h EXCEPT !.state =
                       UnmarshalCtrState((CHOOSE r \in rows : TRUE).JSON)])

\* UpdateContainer.  A Scan error other than "no rows" is not returned: the
\* handler goes on with the empty text it has.
UpdateContainerDo(d, open, h, id, f) ==
    IF ~open THEN Done("ErrDBClosed", {}, FALSE, d, h)
    ELSE IF ~h.valid THEN Done("ErrCtrRemoved", {}, FALSE, d, h)
    ELSE LET rows == {r \in d.ContainerState : r.ID = id}
             rawJSON == IF f = 1 THEN <<>>
                        ELSE (CHOOSE r \in rows : TRUE).JSON
         IN IF f # 1 /\ rows = {}
            THEN Done("ErrNoSuchCtr", {}, TRUE, d, Invalidated(h))
            ELSE IF ~Decodes(rawJSON) THEN Done("jsonError", {}, TRUE, d, h)
            ELSE Done("nil", {}, TRUE, d,
                      [h EXCEPT !.state = UnmarshalCtrState(rawJSON)])

UpdateContainer(p, h) ==
    \E f \in RFaults(p, 1) :
        LET r == UpdateContainerDo(db, valid[p], hs[p][h], CtrConfigOf(h).ID, f)
        IN /\ Finish(p, "UpdateContainer", h, r)
           /\ hs' = [hs EXCEPT ![p][h] = r.h]
           /\ UNCHANGED <<Env, vs>>

\* A variant that selects the edges by their ID column: the containers the
\* given one depends on.
ContainerInUseDoReversed(d, open, h, id, f) ==
    IF ~open THEN Done("ErrDBClosed", {}, FALSE, d, h)
    ELSE IF ~h.valid THEN Done("ErrCtrRemoved", {}, FALSE, d, h)
    ELSE IF f = 1 THEN Done("sqlError", {}, TRUE, d, h)
    ELSE Done("nil",
              {e.DependencyID : e \in {x \in d.ContainerDependency : x.ID = id}},
              TRUE, d, h)

ContainerInUseDo(d, open, h, id, f) ==
    IF ~open THEN Done("ErrDBClosed", {}, FALSE, d, h)
    ELSE IF ~h.valid THEN Done("ErrCtrRemoved", {}, FALSE, d, h)
    ELSE IF f = 1 THEN Done("sqlError", {}, TRUE, d, h)
    ELSE Done("nil", Dependents(d, id), TRUE, d, h)

ContainerInUse(p, h) ==
    \E f \in RFaults(p, 1) :
        /\ Finish(p, "ContainerInUse", h,
                  ContainerInUseDo(db, valid[p], hs[p][h], CtrConfigOf(h).ID, f))
        /\ UNCHANGED <<Env, hs, vs>>

\* SaveVolume.
SaveVolumeDo(d, open, h, name, f) ==
    IF ~open THEN Done("ErrDBClosed", {}, FALSE, d, h)
    ELSE IF ~h.valid THEN Done("ErrVolumeRemoved", {}, FALSE, d, h)
    ELSE IF f = 1 THEN Done("sqlError", {}, TRUE, d, h)
    ELSE LET r == ExecUpdateJSON(d, <<"UPDATE", "TABLE", "VolumeState">>,
                                 "Name", name, MarshalVolState(h.state))
         IN IF f = 2 THEN Done("sqlError", {}, TRUE, d, h)
            ELSE IF ~r.ok THEN Done("sqlSyntax", {}, TRUE, d, h)
            ELSE IF f = 3 THEN Done("sqlError", {}, TRUE, d, h)
            ELSE IF r.n = 0
                 THEN Done("ErrNoSuchVolume", {}, TRUE, d, Invalidated(h))
            ELSE IF f = 4 THEN Done("sqlError", {}, TRUE, d, h)
            ELSE Done("nil", {}, TRUE, r.db, h)

SaveVolume(p, h, st) ==
    \E f \in WFaults(p, 4) :
        LET r == SaveVolumeDo(db, valid[p], [vs[p][h] EXCEPT !.state = st],
                              VolConfigOf(h).Name, f)
        IN /\ Finish(p, "SaveVolume", h, r)
           /\ vs' = [vs EXCEPT ![p][h] = r.h]
           /\ UNCHANGED <<Env, hs>>

\* A variant that takes every Scan error for a removed volume.
UpdateVolumeDoAnyError(d, open, h, name, f) ==
    IF ~open THEN Done("ErrDBClosed", {}, FALSE, d, h)
    ELSE IF ~h.valid THEN Done("ErrVolumeRemoved", {}, FALSE, d, h)
    ELSE LET rows == {r \in d.VolumeState : r.Name = name} IN
         IF f = 1 \/ rows = {}
         THEN Done("ErrNoSuchVolume", {}, TRUE, d, Invalidated(h))
         ELSE LET stateJSON == (CHOOSE r \in rows : TRUE).JSON IN
              IF ~Decodes(stateJSON) THEN Done("jsonError", {}, TRUE, d, h)
              ELSE Done("nil", {}, TRUE, d,
                        [h EXCEPT !.state = UnmarshalVolState(stateJSON)])

\* UpdateVolume.
UpdateVolumeDo(d, open, h, name, f) ==
    IF ~open THEN Done("ErrDBClosed", {}, FALSE, d, h)
    ELSE IF ~h.valid THEN Done("ErrVolumeRemoved", {}, FALSE, d, h)
    ELSE LET rows == {r \in d.VolumeState : r.Name = name} IN
         IF f = 1 THEN Done("sqlError", {}, TRUE, d, h)
         ELSE IF rows = {}
              THEN Done("ErrNoSuchVolume", {}, TRUE, d, Invalidated(h))
         ELSE LET stateJSON == (CHOOSE r \in rows : TRUE).JSON IN
              IF ~Decodes(stateJSON) THEN Done("jsonError", {}, TRUE, d, h)
              ELSE Done("nil", {}, TRUE, d,
                        [h EXCEPT !.state = UnmarshalVolState(stateJSON)])

UpdateVolume(p, h) ==
    \E f \in RFaults(p, 1) :
        LET r == UpdateVolumeDo(db, valid[p], vs[p][h], VolConfigOf(h).Name, f)
        IN /\ Finish(p, "UpdateVolume", h, r)
           /\ vs' = [vs EXCEPT ![p][h] = r.h]
           /\ UNCHANGED <<Env, hs>>

----------------------------------------------------------------------------
\* Exec sessions.

ExecIDs == {<<"e", "1">>, <<"e", "2">>}

AddExecSessionDo(d, open, h, id, sid, f) ==
    IF ~open THEN Done("ErrDBClosed", {}, FALSE, d, h)
    ELSE IF ~h.valid THEN Done("ErrCtrRemoved", {}, FALSE, d, h)
    ELSE IF f = 1 THEN Done("sqlError", {}, TRUE, d, h)
    ELSE LET r == InsertExecSession(d, [ID |-> sid, ContainerID |-> id]) IN
         IF f = 2 THEN Done("sqlError", {}, TRUE, d, h)
         ELSE IF ~r.ok THEN Done("sqlConstraint", {}, TRUE, d, h)
         ELSE IF f = 3 THEN Done("sqlError", {}, TRUE, d, h)
         ELSE Done("nil", {}, TRUE, r.db, h)

AddExecSession(p, h, sid) ==
    \E f \in WFaults(p, 3) :
        /\ Finish(p, "AddExecSession", <<h, sid>>,
                  AddExecSessionDo(db, valid[p], hs[p][h], CtrConfigOf(h).ID,
                                   sid, f))
        /\ UNCHANGED <<Env, hs, vs>>

GetExecSessionDo(d, open, id, f) ==
    IF ~open THEN Done("ErrDBClosed", NoText, FALSE, d, {})
    ELSE IF id = NoText THEN Done("ErrEmptyID", NoText, FALSE, d, {})
    ELSE LET rows == {r \in d.ContainerExecSession : r.ID = id} IN
         IF f = 1 THEN Done("sqlError", NoText, TRUE, d, {})
         ELSE IF rows = {} THEN Done("ErrNoSuchExecSession", NoText, TRUE, d, {})
         ELSE Done("nil", (CHOOSE r \in rows : TRUE).ContainerID, TRUE, d, {})

GetExecSession(p, id) ==
    \E f \in RFaults(p, 1) :
        /\ Finish(p, "GetExecSession", id, GetExecSessionDo(db, valid[p], id, f))
        /\ UNCHANGED <<Env, hs, vs>>

\* A variant that does not look at the number of rows the DELETE removed.
RemoveExecSessionDoUncounted(d, open, sid, f) ==
    IF ~open THEN Done("ErrDBClosed", {}, FALSE, d, {})
    ELSE IF f \in 1..4 THEN Done("sqlError", {}, TRUE, d, {})
    ELSE Done("nil", {}, TRUE,
              ExecDeleteWhere(d, "ContainerExecSession", "ID", sid).db, {})

RemoveExecSessionDo(d, open, sid, f) ==
    IF ~open THEN Done("ErrDBClosed", {}, FALSE, d, {})
    ELSE IF f = 1 THEN Done("sqlError", {}, TRUE, d, {})
    ELSE LET r == ExecDeleteWhere(d, "ContainerExecSession", "ID", sid) IN
         IF f = 2 \/ ~r.ok THEN Done("sqlError", {}, TRUE, d, {})
         ELSE IF f = 3 THEN Done("sqlError", {}, TRUE, d, {})
         ELSE IF r.n = 0 THEN Done("ErrNoSuchExecSession", {}, TRUE, d, {})
         ELSE IF f = 4 THEN Done("sqlError", {}, TRUE, d, {})
         ELSE Done("nil", {}, TRUE, r.db, {})

RemoveExecSession(p, sid) ==
    \E f \in WFaults(p, 4) :
        /\ Finish(p, "RemoveExecSession", sid,
                  RemoveExecSessionDo(db, valid[p], sid, f))
        /\ UNCHANGED <<Env, hs, vs>>

GetContainerExecSessionsDo(d, open, h, id, f) ==
    IF ~open THEN Done("ErrDBClosed", {}, FALSE, d, h)
    ELSE IF ~h.valid THEN Done("ErrCtrRemoved", {}, FALSE, d, h)
    ELSE IF f = 1 THEN Done("sqlError", {}, TRUE, d, h)
    ELSE Done("nil",
              {r.ID : r \in {e \in d.ContainerExecSession : e.ContainerID = id}},
              TRUE, d, h)

GetContainerExecSessions(p, h) ==
    \E f \in RFaults(p, 1) :
        /\ Finish(p, "GetContainerExecSessions", h,
                  GetContainerExecSessionsDo(db, valid[p], hs[p][h],
                                             CtrConfigOf(h).ID, f))
        /\ UNCHANGED <<Env, hs, vs>>

RemoveContainerExecSessionsDo(d, open, h, id, f) ==
    IF ~open THEN Done("ErrDBClosed", {}, FALSE, d, h)
    ELSE IF ~h.valid THEN Done("ErrCtrRemoved", {}, FALSE, d, h)
    ELSE IF f = 1 THEN Done("sqlError", {}, TRUE, d, h)
    ELSE LET r == ExecDeleteWhere(d, "ContainerExecSessions", "ContainerID", id)
         IN IF f = 2 THEN Done("sqlError", {}, TRUE, d, h)
            ELSE IF ~r.ok THEN Done("sqlNoSuchTable", {}, TRUE, d, h)
            ELSE IF f = 3 THEN Done("sqlError", {}, TRUE, d, h)
            ELSE Done("nil", {}, TRUE, r.db, h)

RemoveContainerExecSessions(p, h) ==
    \E f \in WFaults(p, 3) :
        /\ Finish(p, "RemoveContainerExecSessions", h,
                  RemoveContainerExecSessionsDo(db, valid[p], hs[p][h],
                                                CtrConfigOf(h).ID, f))
        /\ UNCHANGED <<Env, hs, vs>>

----------------------------------------------------------------------------
\* Exit codes.  Time is counted in minutes.

MaxTime == 6
FiveMinutes == 5
ExitCodes == {0, 137}
NoExitCode == -1

Tick ==
    /\ now < MaxTime
    /\ now' = now + 1
    /\ UNCHANGED <<db, tx, pc, valid, conn, hs, vs, ps, last, pre, rt, active>>

AddContainerExitCodeDo(d, open, id, exitCode, t, f) ==
    IF id = NoText THEN Done("ErrEmptyID", {}, FALSE, d, {})
    ELSE IF ~open THEN Done("ErrDBClosed", {}, FALSE, d, {})
    ELSE IF f = 1 THEN Done("sqlError", {}, TRUE, d, {})
    ELSE LET r == InsertExitCode(d, [ID |-> id, Timestamp |-> t,
                                     ExitCode |-> exitCode])
         IN IF f = 2 THEN Done("sqlError", {}, TRUE, d, {})
            ELSE IF ~r.ok THEN Done("sqlConstraint", {}, TRUE, d, {})
            ELSE IF f = 3 THEN Done("sqlError", {}, TRUE, d, {})
            ELSE Done("nil", {}, TRUE, r.db, {})

AddContainerExitCode(p, id, exitCode) ==
    \E f \in WFaults(p, 3) :
        /\ Finish(p, "AddContainerExitCode", <<id, exitCode>>,
                  AddContainerExitCodeDo(db, valid[p], id, exitCode, now, f))
        /\ UNCHANGED <<Env, hs, vs>>

GetContainerExitCodeDo(d, open, id, f) ==
    IF id = NoText THEN Done("ErrEmptyID", NoExitCode, FALSE, d, {})
    ELSE IF ~open THEN Done("ErrDBClosed", NoExitCode, FALSE, d, {})
    ELSE LET rows == {r \in d.ContainerExitCode : r.ID = id} IN
         IF f = 1 THEN Done("sqlError", NoExitCode, TRUE, d, {})
         ELSE IF rows = {}
              THEN Done("ErrNoSuchExitCode", NoExitCode, TRUE, d, {})
         ELSE Done("nil", (CHOOSE r \in rows : TRUE).ExitCode, TRUE, d, {})

GetContainerExitCode(p, id) ==
    \E f \in RFaults(p, 1) :
        /\ Finish(p, "GetContainerExitCode", id,
                  GetContainerExitCodeDo(db, valid[p], id, f))
        /\ UNCHANGED <<Env, hs, vs>>

GetContainerExitCodeTimeStampDo(d, open, id, f) ==
    IF id = NoText THEN Done("ErrEmptyID", NoExitCode, FALSE, d, {})
    ELSE IF ~open THEN Done("ErrDBClosed", NoExitCode, FALSE, d, {})
    ELSE LET rows == {r \in d.ContainerExitCode : r.ID = id} IN
         IF f = 1 THEN Done("sqlError", NoExitCode, TRUE, d, {})
         ELSE IF rows = {}
              THEN Done("ErrNoSuchExitCode", NoExitCode, TRUE, d, {})
         ELSE Done("nil", (CHOOSE r \in rows : TRUE).Timestamp, TRUE, d, {})

GetContainerExitCodeTimeStamp(p, id) ==
    \E f \in RFaults(p, 1) :
        /\ Finish(p, "GetContainerExitCodeTimeStamp", id,
                  GetContainerExitCodeTimeStampDo(db, valid[p], id, f))
        /\ UNCHANGED <<Env, hs, vs>>

PruneContainerExitCodesDo(d, open, t, f) ==
    IF ~open THEN Done("ErrDBClosed", {}, FALSE, d, {})
    ELSE LET fiveMinsAgo == t - FiveMinutes
             r == DeleteExitCodesUpTo(d, fiveMinsAgo)
         IN IF f \in {1, 2, 3} THEN Done("sqlError", {}, TRUE, d, {})
            ELSE Done("nil", {}, TRUE, r.db, {})

PruneContainerExitCodes(p) ==
    \E f \in WFaults(p, 3) :
        /\ Finish(p, "PruneContainerExitCodes", "-",
                  PruneContainerExitCodesDo(db, valid[p], now, f))
        /\ UNCHANGED <<Env, hs, vs>>

----------------------------------------------------------------------------
\* Lookups.

\* SQLite folds the case of ASCII letters when LIKE compares them.
Fold(c) ==
    CASE c = "A" -> "a" [] c = "B" -> "b" [] c = "C" -> "c" [] OTHER -> c

\* text LIKE pattern: "%" stands for any run of characters, "_" for any one
\* character, every other character for itself in either case.
RECURSIVE Like(_, _)
Like(pattern, text) ==
    IF pattern = <<>> THEN text = <<>>
    ELSE IF Head(pattern) = "%" THEN
        \/ Like(Tail(pattern), text)
        \/ text # <<>> /\ Like(pattern, Tail(text))
    ELSE /\ text # <<>>
         /\ Head(pattern) = "_" \/ Fold(Head(pattern)) = Fold(Head(text))
         /\ Like(Tail(pattern), Tail(text))

\* SELECT ... FROM ContainerConfig WHERE Name=? OR (ID LIKE ?), both
\* parameters bound to the term as given.
LookupRows(d, idOrName) ==
    {r \in d.ContainerConfig : r.Name = idOrName \/ Like(idOrName, r.ID)}

\* The handle a lookup builds around a config: live, with a new state.
NewHandle(cfg) == [valid |-> TRUE, config |-> cfg, state |-> NewContainerState]

LookupContainerIDDo(d, open, idOrName, f) ==
    IF idOrName = NoText THEN Done("ErrEmptyID", NoText, FALSE, d, {})
    ELSE IF ~open THEN Done("ErrDBClosed", NoText, FALSE, d, {})
    ELSE IF f = 1 THEN Done("sqlError", NoText, TRUE, d, {})
    ELSE LET rows == LookupRows(d, idOrName) IN
         IF Cardinality(rows) > 1 THEN Done("ErrCtrExists", NoText, TRUE, d, {})
         ELSE IF rows = {} THEN Done("ErrNoSuchCtr", NoText, TRUE, d, {})
         ELSE Done("nil", (CHOOSE r \in rows : TRUE).ID, TRUE, d, {})

LookupContainerID(p, idOrName) ==
    \E f \in RFaults(p, 1) :
        /\ Finish(p, "LookupContainerID", idOrName,
                  LookupContainerIDDo(db, valid[p], idOrName, f))
        /\ UNCHANGED <<Env, hs, vs>>

LookupContainerDo(d, open, idOrName, f) ==
    IF idOrName = NoText THEN Done("ErrEmptyID", {}, FALSE, d, {})
    ELSE IF ~open THEN Done("ErrDBClosed", {}, FALSE, d, {})
    ELSE IF f = 1 THEN Done("sqlError", {}, TRUE, d, {})
    ELSE LET rows == LookupRows(d, idOrName) IN
         IF Cardinality(rows) > 1 THEN Done("ErrCtrExists", {}, TRUE, d, {})
         ELSE IF rows = {} THEN Done("ErrNoSuchCtr", {}, TRUE, d, {})
         ELSE LET rawJSON == (CHOOSE r \in rows : TRUE).JSON IN
              IF ~Decodes(rawJSON) THEN Done("jsonError", {}, TRUE, d, {})
              ELSE Done("nil", NewHandle(UnmarshalCtrConfig(rawJSON)), TRUE, d,
                        {})

LookupContainer(p, idOrName) ==
    \E f \in RFaults(p, 1) :
        /\ Finish(p, "LookupContainer", idOrName,
                  LookupContainerDo(db, valid[p], idOrName, f))
        /\ UNCHANGED <<Env, hs, vs>>

----------------------------------------------------------------------------
\* Reading containers.

\* getCtrConfig: the config row of the ID, decoded.
getCtrConfig(d, id, f) ==
    LET rows == {r \in d.ContainerConfig : r.ID = id} IN
    IF f = 1 THEN [err |-> "sqlError", cfg |-> {}]
    ELSE IF rows = {} THEN [err |-> "ErrNoSuchCtr", cfg |-> {}]
    ELSE LET rawJSON == (CHOOSE r \in rows : TRUE).JSON IN
         IF ~Decodes(rawJSON) THEN [err |-> "jsonError", cfg |-> {}]
         ELSE [err |-> "nil", cfg |-> UnmarshalCtrConfig(rawJSON)]

GetContainerNameDo(d, open, id, f) ==
    IF id = NoText THEN Done("ErrEmptyID", NoText, FALSE, d, {})
    ELSE IF ~open THEN Done("ErrDBClosed", NoText, FALSE, d, {})
    ELSE LET rows == {r \in d.ContainerConfig : r.ID = id} IN
         IF f = 1 THEN Done("sqlError", NoText, TRUE, d, {})
         ELSE IF rows = {} THEN Done("ErrNoSuchCtr", NoText, TRUE, d, {})
         ELSE Done("nil", (CHOOSE r \in rows : TRUE).Name, TRUE, d, {})

GetContainerName(p, id) ==
    \E f \in RFaults(p, 1) :
        /\ Finish(p, "GetContainerName", id,
                  GetContainerNameDo(db, valid[p], id, f))
        /\ UNCHANGED <<Env, hs, vs>>

GetPodNameDo(d, open, id, f) ==
    IF id = NoText THEN Done("ErrEmptyID", NoText, FALSE, d, {})
    ELSE IF ~open THEN Done("ErrDBClosed", NoText, FALSE, d, {})
    ELSE LET rows == {r \in d.PodConfig : r.ID = id} IN
         IF f = 1 THEN Done("sqlError", NoText, TRUE, d, {})
         ELSE IF rows = {} THEN Done("ErrNoSuchPod", NoText, TRUE, d, {})
         ELSE Done("nil", (CHOOSE r \in rows : TRUE).Name, TRUE, d, {})

GetPodName(p, id) ==
    \E f \in RFaults(p, 1) :
        /\ Finish(p, "GetPodName", id, GetPodNameDo(db, valid[p], id, f))
        /\ UNCHANGED <<Env, hs, vs>>

\* A variant whose query has lost its WHERE clause: it loads some config row.
ContainerDoAnyRow(d, open, id, f) ==
    IF id = NoText THEN Done("ErrEmptyID", {}, FALSE, d, {})
    ELSE IF ~open THEN Done("ErrDBClosed", {}, FALSE, d, {})
    ELSE IF f = 1 THEN Done("sqlError", {}, TRUE, d, {})
    ELSE IF d.ContainerConfig = {} THEN Done("ErrNoSuchCtr", {}, TRUE, d, {})
    ELSE Done("nil",
              NewHandle(UnmarshalCtrConfig(
                  (CHOOSE r \in d.ContainerConfig : TRUE).JSON)),
              TRUE, d, {})

ContainerDo(d, open, id, f) ==
    IF id = NoText THEN Done("ErrEmptyID", {}, FALSE, d, {})
    ELSE IF ~open THEN Done("ErrDBClosed", {}, FALSE, d, {})
    ELSE LET c == getCtrConfig(d, id, f) IN
         IF c.err # "nil" THEN Done(c.err, {}, TRUE, d, {})
         ELSE Done("nil", NewHandle(c.cfg), TRUE, d, {})

Container(p, id) ==
    \E f \in RFaults(p, 1) :
        /\ Finish(p, "Container", id, ContainerDo(db, valid[p], id, f))
        /\ UNCHANGED <<Env, hs, vs>>

GetContainerConfigDo(d, open, id, f) ==
    IF id = NoText THEN Done("ErrEmptyID", {}, FALSE, d, {})
    ELSE IF ~open THEN Done("ErrDBClosed", {}, FALSE, d, {})
    ELSE LET c == getCtrConfig(d, id, f) IN Done(c.err, c.cfg, TRUE, d, {})

GetContainerConfig(p, id) ==
    \E f \in RFaults(p, 1) :
        /\ Finish(p, "GetContainerConfig", id,
                  GetContainerConfigDo(db, valid[p], id, f))
        /\ UNCHANGED <<Env, hs, vs>>

HasContainerDo(d, open, id, f) ==
    IF id = NoText THEN Done("ErrEmptyID", FALSE, FALSE, d, {})
    ELSE IF ~open THEN Done("ErrDBClosed", FALSE, FALSE, d, {})
    ELSE IF f = 1 THEN Done("sqlError", FALSE, TRUE, d, {})
    ELSE Done("nil", \E r \in d.ContainerConfig : r.ID = id, TRUE, d, {})

HasContainer(p, id) ==
    \E f \in RFaults(p, 1) :
        /\ Finish(p, "HasContainer", id, HasContainerDo(db, valid[p], id, f))
        /\ UNCHANGED <<Env, hs, vs>>

\* The two queries of AllContainers, as tokens.  A SELECT that names the
\* columns of a table needs a FROM clause to prepare.
AllContainersQuery(loadState) ==
    IF loadState
    THEN <<"SELECT", "ContainerConfig.JSON", "ContainerState.JSON",
           "INNER", "JOIN", "ContainerState", "ON", "ContainerConfig.ID",
           "=", "ContainerState.ID">>
    ELSE <<"SELECT", "JSON", "FROM", "ContainerConfig">>

QueryPrepares(q) == \E i \in DOMAIN q : q[i] = "FROM"

AllContainersDo(d, open, loadState, f) ==
    IF ~open THEN Done("ErrDBClosed", {}, FALSE, d, {})
    ELSE IF f = 1 THEN Done("sqlError", {}, TRUE, d, {})
    ELSE IF ~QueryPrepares(AllContainersQuery(loadState))
         THEN Done("sqlSyntax", {}, TRUE, d, {})
    ELSE IF \E r \in d.ContainerConfig : ~Decodes(r.JSON)
         THEN Done("jsonError", {}, TRUE, d, {})
    ELSE Done("nil",
              {NewHandle(UnmarshalCtrConfig(r.JSON)) : r \in d.ContainerConfig},
              TRUE, d, {})

AllContainers(p, loadState) ==
    \E f \in RFaults(p, 1) :
        /\ Finish(p, "AllContainers", loadState,
                  AllContainersDo(db, valid[p], loadState, f))
        /\ UNCHANGED <<Env, hs, vs>>

GetNetworksDo(d, open, h, cfg, f) ==
    IF ~open THEN Done("ErrDBClosed", {}, FALSE, d, h)
    ELSE IF ~h.valid THEN Done("ErrCtrRemoved", {}, FALSE, d, h)
    ELSE IF cfg.NetMode # "bridge" THEN Done("nil", {}, FALSE, d, h)
    ELSE LET c == getCtrConfig(d, cfg.ID, f) IN
         IF c.err = "ErrNoSuchCtr" THEN Done(c.err, {}, TRUE, d, Invalidated(h))
         ELSE IF c.err # "nil" THEN Done(c.err, {}, TRUE, d, h)
         ELSE Done("nil", c.cfg.Networks, TRUE, d, h)

GetNetworks(p, h) ==
    \E f \in RFaults(p, 1) :
        LET r == GetNetworksDo(db, valid[p], hs[p][h], CtrConfigOf(h), f)
        IN /\ Finish(p, "GetNetworks", h, r)
           /\ hs' = [hs EXCEPT ![p][h] = r.h]
           /\ UNCHANGED <<Env, vs>>

----------------------------------------------------------------------------
\* Rewriting a container's config.

\* UPDATE ContainerConfig SET Name=?, JSON=? WHERE ID=?: Name stays unique.
UpdateContainerConfig(d, id, cfg) ==
    LET hit == {r \in d.ContainerConfig : r.ID = id} IN
    IF hit # {} /\ \E r \in d.ContainerConfig \ hit : r.Name = cfg.Name
    THEN StmtErr(d)
    ELSE StmtOk([d EXCEPT !.ContainerConfig =
                     (@ \ hit) \cup {[r EXCEPT !.Name = cfg.Name,
                                               !.JSON = MarshalCtrConfig(cfg)]
                                     : r \in hit}],
                Cardinality(hit))

\* rewriteContainerConfig: one transaction of one UPDATE; a container that
\* is gone invalidates the handle.
rewriteContainerConfig(d, h, id, newCfg, f) ==
    IF f = 1 THEN Done("sqlError", {}, TRUE, d, h)
    ELSE LET r == UpdateContainerConfig(d, id, newCfg) IN
         IF f = 2 THEN Done("sqlError", {}, TRUE, d, h)
         ELSE IF ~r.ok THEN Done("sqlConstraint", {}, TRUE, d, h)
         ELSE IF r.n = 0 THEN Done("ErrNoSuchCtr", {}, TRUE, d, Invalidated(h))
         ELSE IF f = 3 THEN Done("sqlError", {}, TRUE, d, h)
         ELSE Done("nil", {}, TRUE, r.db, h)

RewriteContainerConfigDo(d, open, h, id, newCfg, f) ==
    IF ~open THEN Done("ErrDBClosed", {}, FALSE, d, h)
    ELSE IF ~h.valid THEN Done("ErrCtrRemoved", {}, FALSE, d, h)
    ELSE rewriteContainerConfig(d, h, id, newCfg, f)

RewriteContainerConfig(p, h, newCfg) ==
    \E f \in WFaults(p, 3) :
        LET r == RewriteContainerConfigDo(db, valid[p], hs[p][h],
                                          CtrConfigOf(h).ID, newCfg, f)
        IN /\ Finish(p, "RewriteContainerConfig", <<h, newCfg>>, r)
           /\ hs' = [hs EXCEPT ![p][h] = r.h]
           /\ UNCHANGED <<Env, vs>>

\* A variant without the check of the old name.
SafeRewriteContainerConfigDoAnyOld(d, open, h, id, oldName, newName, newCfg, f) ==
    IF ~open THEN Done("ErrDBClosed", {}, FALSE, d, h)
    ELSE IF ~h.valid THEN Done("ErrCtrRemoved", {}, FALSE, d, h)
    ELSE IF newName # NoText /\ newCfg.Name # newName
         THEN Done("ErrInvalidArg", {}, FALSE, d, h)
    ELSE rewriteContainerConfig(d, h, id, newCfg, f)

SafeRewriteContainerConfigDo(d, open, h, id, oldName, newName, newCfg, f) ==
    IF ~open THEN Done("ErrDBClosed", {}, FALSE, d, h)
    ELSE IF ~h.valid THEN Done("ErrCtrRemoved", {}, FALSE, d, h)
    ELSE IF newName # NoText /\ newCfg.Name # newName
         THEN Done("ErrInvalidArg", {}, FALSE, d, h)
    ELSE IF newName # NoText /\ oldName = NoText
         THEN Done("ErrInvalidArg", {}, FALSE, d, h)
    ELSE rewriteContainerConfig(d, h, id, newCfg, f)

SafeRewriteContainerConfig(p, h, oldName, newName, newCfg) ==
    \E f \in WFaults(p, 3) :
        LET r == SafeRewriteContainerConfigDo(db, valid[p], hs[p][h],
                     CtrConfigOf(h).ID, oldName, newName, newCfg, f)
        IN /\ Finish(p, "SafeRewriteContainerConfig",
                     <<h, oldName, newName, newCfg>>, r)
           /\ hs' = [hs EXCEPT ![p][h] = r.h]
           /\ UNCHANGED <<Env, vs>>

\* networkModify: the stored config with the network added (connect), kept
\* (modify) or taken out (disconnect), written back in one transaction.
networkModify(d, open, h, id, network, new, disconnect, f) ==
    IF ~open THEN Done("ErrDBClosed", {}, FALSE, d, h)
    ELSE IF ~h.valid THEN Done("ErrCtrRemoved", {}, FALSE, d, h)
    ELSE LET c == getCtrConfig(d, id, IF f = 1 THEN 1 ELSE 0) IN
         IF c.err = "ErrNoSuchCtr" THEN Done(c.err, {}, TRUE, d, Invalidated(h))
         ELSE IF c.err # "nil" THEN Done(c.err, {}, TRUE, d, h)
         ELSE IF new /\ network \in c.cfg.Networks
              THEN Done("ErrNetworkConnected", {}, TRUE, d, h)
         ELSE IF ~new /\ network \notin c.cfg.Networks
              THEN Done("ErrNoSuchNetwork", {}, TRUE, d, h)
         ELSE LET nets == IF disconnect THEN c.cfg.Networks \ {network}
                          ELSE c.cfg.Networks \cup {network}
                  r == UpdateContainerConfig(d, id,
                                             [c.cfg EXCEPT !.Networks = nets])
              IN IF f \in {2, 3} \/ ~r.ok THEN Done("sqlError", {}, TRUE, d, h)
                 ELSE Done("nil", {}, TRUE, r.db, h)

NetworkCall(p, op, h, network, new, disconnect) ==
    \E f \in WFaults(p, 3) :
        LET r == networkModify(db, valid[p], hs[p][h], CtrConfigOf(h).ID,
                               network, new, disconnect, f)
        IN /\ Finish(p, op, <<h, network>>, r)
           /\ hs' = [hs EXCEPT ![p][h] = r.h]
           /\ UNCHANGED <<Env, vs>>

NetworkConnect(p, h, network) ==
    NetworkCall(p, "NetworkConnect", h, network, TRUE, FALSE)

NetworkModify(p, h, network) ==
    NetworkCall(p, "NetworkModify", h, network, FALSE, FALSE)

NetworkDisconnect(p, h, network) ==
    NetworkCall(p, "NetworkDisconnect", h, network, FALSE, TRUE)

----------------------------------------------------------------------------
\* Pods.  The whole-pod operations make their checks and then report that
\* they are not implemented.

\* The checks of such an operation, in the order it makes them: the empty
\* ID (only the operations that take an ID, which test it first), the store,
\* the handle (only the operations that take one).
\* A variant without the check of the handle.
NotImplementedDoAnyHandle(d, open, takesID, id, takesHandle, live, removed) ==
    IF takesID /\ id = NoText THEN Done("ErrEmptyID", {}, FALSE, d, {})
    ELSE IF ~open THEN Done("ErrDBClosed", {}, FALSE, d, {})
    ELSE Done("ErrNotImplemented", {}, FALSE, d, {})

NotImplementedDo(d, open, takesID, id, takesHandle, live, removed) ==
    IF takesID /\ id = NoText THEN Done("ErrEmptyID", {}, FALSE, d, {})
    ELSE IF ~open THEN Done("ErrDBClosed", {}, FALSE, d, {})
    ELSE IF takesHandle /\ ~live THEN Done(removed, {}, FALSE, d, {})
    ELSE Done("ErrNotImplemented", {}, FALSE, d, {})

\* An operation on a pod handle.
PodCall(p, op, pod) ==
    /\ Finish(p, op, pod,
              NotImplementedDo(db, valid[p], FALSE, NoText, TRUE, ps[p][pod],
                               "ErrPodRemoved"))
    /\ UNCHANGED <<Env, hs, vs>>

\* An operation on a pod ID.
PodIDCall(p, op, id) ==
    /\ Finish(p, op, id,
              NotImplementedDo(db, valid[p], TRUE, id, FALSE, TRUE, "-"))
    /\ UNCHANGED <<Env, hs, vs>>

Pod(p, id) == PodIDCall(p, "Pod", id)
HasPod(p, id) == PodIDCall(p, "HasPod", id)

PodHasContainer(p, pod, id) ==
    /\ Finish(p, "PodHasContainer", <<pod, id>>,
              NotImplementedDo(db, valid[p], TRUE, id, TRUE, ps[p][pod],
                               "ErrPodRemoved"))
    /\ UNCHANGED <<Env, hs, vs>>

PodContainersByID(p, pod) == PodCall(p, "PodContainersByID", pod)
PodContainers(p, pod) == PodCall(p, "PodContainers", pod)
AddPod(p, pod) == PodCall(p, "AddPod", pod)
RemovePod(p, pod) == PodCall(p, "RemovePod", pod)
RemovePodContainers(p, pod) == PodCall(p, "RemovePodContainers", pod)
UpdatePod(p, pod) == PodCall(p, "UpdatePod", pod)
SavePod(p, pod) == PodCall(p, "SavePod", pod)
RewritePodConfig(p, pod) == PodCall(p, "RewritePodConfig", pod)

AllPods(p) ==
    /\ Finish(p, "AllPods", "-",
              NotImplementedDo(db, valid[p], FALSE, NoText, FALSE, TRUE, "-"))
    /\ UNCHANGED <<Env, hs, vs>>

RewriteVolumeConfig(p, h) ==
    /\ Finish(p, "RewriteVolumeConfig", h,
              NotImplementedDo(db, valid[p], FALSE, NoText, TRUE,
                               vs[p][h].valid, "ErrVolumeRemoved"))
    /\ UNCHANGED <<Env, hs, vs>>

LookupPodDo(d, open, idOrName, f) ==
    IF idOrName = NoText THEN Done("ErrEmptyID", {}, FALSE, d, {})
    ELSE IF ~open THEN Done("ErrDBClosed", {}, FALSE, d, {})
    ELSE IF f = 1 THEN Done("sqlError", {}, TRUE, d, {})
    ELSE LET rows == {r \in d.PodConfig :
                         r.Name = idOrName \/ Like(idOrName, r.ID)}
         IN IF Cardinality(rows) > 1 THEN Done("ErrCtrExists", {}, TRUE, d, {})
            ELSE IF rows = {} THEN Done("ErrNoSuchPod", {}, TRUE, d, {})
            ELSE LET rawJSON == (CHOOSE r \in rows : TRUE).JSON IN
                 IF ~Decodes(rawJSON) THEN Done("jsonError", {}, TRUE, d, {})
                 ELSE Done("nil", [valid |-> TRUE, config |-> rawJSON],
                           TRUE, d, {})

LookupPod(p, idOrName) ==
    \E f \in RFaults(p, 1) :
        /\ Finish(p, "LookupPod", idOrName,
                  LookupPodDo(db, valid[p], idOrName, f))
        /\ UNCHANGED <<Env, hs, vs>>

----------------------------------------------------------------------------
\* Reading volumes.

NewVolumeHandle(cfg) ==
    [valid |-> TRUE, config |-> cfg, state |-> NewVolumeState]

AllVolumesDo(d, open, f) ==
    IF ~open THEN Done("ErrDBClosed", {}, FALSE, d, {})
    ELSE IF f = 1 THEN Done("sqlError", {}, TRUE, d, {})
    ELSE IF \E r \in d.VolumeConfig : ~Decodes(r.JSON)
         THEN Done("jsonError", {}, TRUE, d, {})
    ELSE Done("nil",
              {NewVolumeHandle(UnmarshalVolConfig(r.JSON)) : r \in d.VolumeConfig},
              TRUE, d, {})

AllVolumes(p) ==
    \E f \in RFaults(p, 1) :
        /\ Finish(p, "AllVolumes", "-", AllVolumesDo(db, valid[p], f))
        /\ UNCHANGED <<Env, hs, vs>>

\* Volume.  A Scan error other than "no rows" is not returned: the handler
\* goes on to decode the empty text it has.
VolumeDo(d, open, name, f) ==
    IF name = NoText THEN Done("ErrEmptyID", {}, FALSE, d, {})
    ELSE IF ~open THEN Done("ErrDBClosed", {}, FALSE, d, {})
    ELSE LET rows == {r \in d.VolumeConfig : r.Name = name}
             configJSON == IF f = 1 THEN <<>>
                           ELSE (CHOOSE r \in rows : TRUE).JSON
         IN IF f # 1 /\ rows = {} THEN Done("ErrNoSuchVolume", {}, TRUE, d, {})
            ELSE IF ~Decodes(configJSON) THEN Done("jsonError", {}, TRUE, d, {})
            ELSE Done("nil", NewVolumeHandle(UnmarshalVolConfig(configJSON)),
                      TRUE, d, {})

Volume(p, name) ==
    \E f \in RFaults(p, 1) :
        /\ Finish(p, "Volume", name, VolumeDo(db, valid[p], name, f))
        /\ UNCHANGED <<Env, hs, vs>>

LookupVolumeDo(d, open, name, f) ==
    IF name = NoText THEN Done("ErrEmptyID", {}, FALSE, d, {})
    ELSE IF ~open THEN Done("ErrDBClosed", {}, FALSE, d, {})
    ELSE IF f = 1 THEN Done("sqlError", {}, TRUE, d, {})
    ELSE LET rows == {r \in d.VolumeConfig : Like(name, r.Name)} IN
         IF Cardinality(rows) > 1
         THEN Done("ErrVolumeExists", {}, TRUE, d, {})
         ELSE IF rows = {} THEN Done("ErrNoSuchVolume", {}, TRUE, d, {})
         ELSE LET configJSON == (CHOOSE r \in rows : TRUE).JSON IN
              IF ~Decodes(configJSON) THEN Done("jsonError", {}, TRUE, d, {})
              ELSE Done("nil", NewVolumeHandle(UnmarshalVolConfig(configJSON)),
                        TRUE, d, {})

LookupVolume(p, name) ==
    \E f \in RFaults(p, 1) :
        /\ Finish(p, "LookupVolume", name,
                  LookupVolumeDo(db, valid[p], name, f))
        /\ UNCHANGED <<Env, hs, vs>>

HasVolumeDo(d, open, name, f) ==
    IF name = NoText THEN Done("ErrEmptyID", FALSE, FALSE, d, {})
    ELSE IF ~open THEN Done("ErrDBClosed", FALSE, FALSE, d, {})
    ELSE IF f = 1 THEN Done("sqlError", FALSE, TRUE, d, {})
    ELSE Done("nil", \E r \in d.VolumeConfig : r.Name = name, TRUE, d, {})

HasVolume(p, name) ==
    \E f \in RFaults(p, 1) :
        /\ Finish(p, "HasVolume", name, HasVolumeDo(db, valid[p], name, f))
        /\ UNCHANGED <<Env, hs, vs>>

VolumeInUseDo(d, open, h, name, f) ==
    IF ~open THEN Done("ErrDBClosed", {}, FALSE, d, h)
    ELSE IF ~h.valid THEN Done("ErrVolumeRemoved", {}, FALSE, d, h)
    ELSE IF f = 1 THEN Done("sqlError", {}, TRUE, d, h)
    ELSE Done("nil", VolumeUsers(d, name), TRUE, d, h)

VolumeInUse(p, h) ==
    \E f \in RFaults(p, 1) :
        /\ Finish(p, "VolumeInUse", h,
                  VolumeInUseDo(db, valid[p], vs[p][h], VolConfigOf(h).Name, f))
        /\ UNCHANGED <<Env, hs, vs>>

\* ContainerIDIsVolume: a volume without backing storage has a NULL
\* StorageID, which equals no ID.
ContainerIDIsVolumeDo(d, open, id, f) ==
    IF ~open THEN Done("ErrDBClosed", FALSE, FALSE, d, {})
    ELSE IF f = 1 THEN Done("sqlError", FALSE, TRUE, d, {})
    ELSE Done("nil",
              \E r \in d.VolumeConfig : r.StorageID # NoText /\ r.StorageID = id,
              TRUE, d, {})

ContainerIDIsVolume(p, id) ==
    \E f \in RFaults(p, 1) :
        /\ Finish(p, "ContainerIDIsVolume", id,
                  ContainerIDIsVolumeDo(db, valid[p], id, f))
        /\ UNCHANGED <<Env, hs, vs>>

----------------------------------------------------------------------------
\* Refresh.

\* The entity-specific resets: the live-process fields are cleared, the
\* historical fields are kept.
resetContainerState(st) == [st EXCEPT !.PID = 0, !.Mounted = FALSE]
resetVolumeState(st) == [st EXCEPT !.MountCount = 0]
resetPodState(st) == [st EXCEPT !.CgroupPath = NoText]

MarshalPodState(st) == <<st.CgroupPath, st.InfraContainerID>>
UnmarshalPodState(j) == [CgroupPath |-> j[1], InfraContainerID |-> j[2]]

\* The three maps Refresh builds from the state tables: key -> reset JSON.
RefreshMaps(d) ==
    [ctr |-> {<<r.ID, MarshalCtrState(resetContainerState(
                          UnmarshalCtrState(r.JSON)))>> : r \in d.ContainerState},
     pod |-> {<<r.ID, MarshalPodState(resetPodState(
                          UnmarshalPodState(r.JSON)))>> : r \in d.PodState},
     vol |-> {<<r.Name, MarshalVolState(resetVolumeState(
                          UnmarshalVolState(r.JSON)))>> : r \in d.VolumeState}]

\* One loop of tx.Exec over a map; it stops at the first statement that
\* fails.
RECURSIVE UpdateAll(_, _, _, _)
UpdateAll(d, head, key, m) ==
    IF m = {} THEN StmtOk(d, 0)
    ELSE LET e == CHOOSE e \in m : TRUE
             r == ExecUpdateJSON(d, head, key, e[1], e[2])
         IN IF r.ok THEN UpdateAll(r.db, head, key, m \ {e}) ELSE StmtErr(d)

\* The three write-back loops of Refresh, in order.
RefreshWriteBack(d, maps) ==
    LET c == UpdateAll(d, <<"UPDATE", "TABLE", "ContainerState">>, "ID",
                       maps.ctr)
        q == UpdateAll(c.db, <<"UPDATE", "TABLE", "PodState">>, "ID", maps.pod)
        v == UpdateAll(q.db, <<"UPDATE", "TABLE", "VolumeState">>, "Name",
                       maps.vol)
    IN IF c.ok /\ q.ok /\ v.ok THEN v ELSE StmtErr(d)

\* Refresh, up to the end of its three queries (made outside a transaction).
RefreshLoad(p) ==
    /\ Idle(p)
    /\ pre' = db
    /\ UNCHANGED <<db, tx, Env, hs, vs>>
    /\ IF ~valid[p] THEN Return(p, "Refresh", "-", "ErrDBClosed", {}, FALSE)
       ELSE \E ok \in Outcomes(p) :
           IF ~ok THEN Return(p, "Refresh", "-", "sqlError", {}, TRUE)
           ELSE IF \E r \in db.ContainerState \cup db.PodState
                                \cup db.VolumeState : r.JSON = <<>>
                THEN Return(p, "Refresh", "-", "jsonError", {}, TRUE)
           ELSE /\ Goto(p, "Refresh", 1, RefreshMaps(db))
                /\ UNCHANGED last

\* s.conn.Begin()
RefreshBegin(p) ==
    /\ At(p, "Refresh", 1)
    /\ UNCHANGED <<db, pre, Env, hs, vs>>
    /\ \E ok \in Outcomes(p) :
           IF ok THEN /\ TxBegin(p)
                      /\ Goto(p, "Refresh", 2, pc[p][3])
                      /\ UNCHANGED last
           ELSE /\ Return(p, "Refresh", pc[p][3], "sqlError", {}, TRUE)
                /\ UNCHANGED tx

\* The write-back loops; with nothing loaded they execute no statement.
RefreshUpdateStates(p) ==
    /\ At(p, "Refresh", 2)
    /\ UNCHANGED <<Env, hs, vs>>
    /\ LET maps == pc[p][3] IN
       IF maps.ctr = {} /\ maps.pod = {} /\ maps.vol = {} THEN
           /\ Goto(p, "Refresh", 3, maps)
           /\ UNCHANGED <<db, pre, tx, last>>
       ELSE WriteStep(p, RefreshWriteBack(TxView(p), maps), "sqlSyntax")

\* A variant that runs the statement on the connection, outside the
\* transaction.
RefreshDeleteExitCodesNoTx(p) ==
    /\ At(p, "Refresh", 3)
    /\ db' = DeleteAllExitCodes(db).db
    /\ Goto(p, "Refresh", 4, pc[p][3])
    /\ UNCHANGED <<pre, tx, last, Env, hs, vs>>

\* tx.Exec("DELETE FROM ContainerExitCode;")
RefreshDeleteExitCodes(p) ==
    /\ At(p, "Refresh", 3)
    /\ WriteStep(p, DeleteAllExitCodes(TxView(p)), "sqlError")
    /\ UNCHANGED <<Env, hs, vs>>

\* tx.Exec("DELETE FROM ContainerExecSession;")
RefreshDeleteExecSessions(p) ==
    /\ At(p, "Refresh", 4)
    /\ WriteStep(p, DeleteAllExecSessions(TxView(p)), "sqlError")
    /\ UNCHANGED <<Env, hs, vs>>

RefreshCommit(p) ==
    /\ At(p, "Refresh", 5)
    /\ CommitStep(p)
    /\ UNCHANGED <<Env, hs, vs>>

----------------------------------------------------------------------------
\* The database configuration.

schemaVersion == 1

\* The values ValidateDBConfig derives from the runtime of the store.
RuntimeValues(r) ==
    LET runtimeGraphRoot == Clean(r.GraphRoot)
        runtimeRunRoot == Clean(r.RunRoot)
        runtimeGraphDriver == r.GraphDriverName
    IN [Os |-> GOOS,
        StaticDir |-> Clean(r.StaticDir),
        TmpDir |-> Clean(r.TmpDir),
        GraphRoot |-> IF runtimeGraphRoot = <<>>
                      THEN StoreDefaults.GraphRoot ELSE runtimeGraphRoot,
        RunRoot |-> IF runtimeRunRoot = <<>>
                    THEN StoreDefaults.RunRoot ELSE runtimeRunRoot,
        GraphDriver |-> IF runtimeGraphDriver = ""
                        THEN StoreDefaults.GraphDriverName
                        ELSE runtimeGraphDriver,
        VolumeDir |-> Clean(r.VolumePath)]

DBConfigRow(v) ==
    [ID |-> 1, SchemaVersion |-> schemaVersion, Os |-> v.Os,
     StaticDir |-> v.StaticDir, TmpDir |-> v.TmpDir, GraphRoot |-> v.GraphRoot,
     RunRoot |-> v.RunRoot, GraphDriver |-> v.GraphDriver,
     VolumeDir |-> v.VolumeDir]

\* The checkField calls, in order: the name each reports and its column.
CheckedFields ==
    << <<"os", "Os">>, <<"static dir", "StaticDir">>, <<"tmp dir", "TmpDir">>,
       <<"graph root", "GraphRoot">>, <<"run root", "RunRoot">>,
       <<"graph driver", "GraphDriver">>, <<"volume path", "VolumeDir">> >>

\* A variant that reports the last field whose stored value differs.
LastMismatch(row, v) ==
    LET bad == {i \in DOMAIN CheckedFields :
                    row[CheckedFields[i][2]] # v[CheckedFields[i][2]]}
    IN IF bad = {} THEN 0 ELSE CHOOSE i \in bad : \A j \in bad : i >= j

\* The first field whose stored value differs from ours, or 0.
FirstMismatch(row, v) ==
    LET bad == {i \in DOMAIN CheckedFields :
                    row[CheckedFields[i][2]] # v[CheckedFields[i][2]]}
    IN IF bad = {} THEN 0 ELSE CHOOSE i \in bad : \A j \in bad : i <= j

\* ValidateDBConfig up to the end of its query: the default store options,
\* the runtime values, the SELECT, and for a stored row the field checks.
\* The values come from the runtime the store was built with; the argument
\* is not read.
ValidateDBConfigQuery(p, runtime) ==
    /\ Idle(p)
    /\ pre' = db
    /\ UNCHANGED <<db, tx, Env, hs, vs>>
    /\ IF ~valid[p]
       THEN Return(p, "ValidateDBConfig", runtime, "ErrDBClosed", {}, FALSE)
       ELSE \E f \in (IF Up(p) THEN 0..2 ELSE 1..2) :
           LET ours == RuntimeValues(rt[p]) IN
           IF f = 1 THEN
               Return(p, "ValidateDBConfig", runtime, "storeOptionsError", {},
                      FALSE)
           ELSE IF f = 2 THEN
               Return(p, "ValidateDBConfig", runtime, "sqlError", {}, TRUE)
           ELSE IF db.DBConfig = {} THEN
               /\ Goto(p, "ValidateDBConfig", 1, runtime)
               /\ UNCHANGED last
           ELSE LET row == CHOOSE r \in db.DBConfig : TRUE
                    i == FirstMismatch(row, ours)
                IN IF i = 0
                   THEN Return(p, "ValidateDBConfig", runtime, "nil", {}, TRUE)
                   ELSE Return(p, "ValidateDBConfig", runtime, "ErrDBBadConfig",
                               <<CheckedFields[i][1], row[CheckedFields[i][2]],
                                 ours[CheckedFields[i][2]]>>, TRUE)

\* s.conn.Begin() of the first write.
ValidateDBConfigBegin(p) ==
    /\ At(p, "ValidateDBConfig", 1)
    /\ UNCHANGED <<db, pre, Env, hs, vs>>
    /\ \E ok \in Outcomes(p) :
           IF ok THEN /\ TxBegin(p)
                      /\ Goto(p, "ValidateDBConfig", 2, pc[p][3])
                      /\ UNCHANGED last
           ELSE /\ Return(p, "ValidateDBConfig", pc[p][3], "sqlError", {}, TRUE)
                /\ UNCHANGED tx

\* tx.Exec(createRow, 1, schemaVersion, ...)
ValidateDBConfigInsert(p) ==
    /\ At(p, "ValidateDBConfig", 2)
    /\ WriteStep(p, InsertDBConfig(TxView(p), DBConfigRow(RuntimeValues(rt[p]))),
                 "sqlConstraint")
    /\ UNCHANGED <<Env, hs, vs>>

ValidateDBConfigCommit(p) ==
    /\ At(p, "ValidateDBConfig", 3)
    /\ CommitStep(p)
    /\ UNCHANGED <<Env, hs, vs>>

EmptyDBConfig ==
    [LibpodRoot |-> NoText, LibpodTmp |-> NoText, StorageRoot |-> NoText,
     StorageTmp |-> NoText, GraphDriver |-> "", VolumePath |-> NoText]

\* A variant that fills StorageRoot from the RunRoot column.
GetDBConfigDoSwapped(d, open, f) ==
    IF ~open THEN Done("ErrDBClosed", {}, FALSE, d, {})
    ELSE IF f = 1 THEN Done("sqlError", {}, TRUE, d, {})
    ELSE IF d.DBConfig = {} THEN Done("nil", EmptyDBConfig, TRUE, d, {})
    ELSE LET row == CHOOSE r \in d.DBConfig : TRUE IN
         Done("nil",
              [LibpodRoot |-> row.StaticDir, LibpodTmp |-> row.TmpDir,
               StorageRoot |-> row.RunRoot, StorageTmp |-> row.RunRoot,
               GraphDriver |-> row.GraphDriver, VolumePath |-> row.VolumeDir],
              TRUE, d, {})

GetDBConfigDo(d, open, f) ==
    IF ~open THEN Done("ErrDBClosed", {}, FALSE, d, {})
    ELSE IF f = 1 THEN Done("sqlError", {}, TRUE, d, {})
    ELSE IF d.DBConfig = {} THEN Done("nil", EmptyDBConfig, TRUE, d, {})
    ELSE LET row == CHOOSE r \in d.DBConfig : TRUE IN
         Done("nil",
              [LibpodRoot |-> row.StaticDir, LibpodTmp |-> row.TmpDir,
               StorageRoot |-> row.GraphRoot, StorageTmp |-> row.RunRoot,
               GraphDriver |-> row.GraphDriver, VolumePath |-> row.VolumeDir],
              TRUE, d, {})

GetDBConfig(p) ==
    \E f \in RFaults(p, 1) :
        /\ Finish(p, "GetDBConfig", "-", GetDBConfigDo(db, valid[p], f))
        /\ UNCHANGED <<Env, hs, vs>>

----------------------------------------------------------------------------
\* Close.  sql.DB.Close shuts the pool even when it reports an error, and
\* closing a closed pool succeeds.
\* A variant that marks the store closed whatever conn.Close returns.
CloseAlways(p) ==
    /\ Idle(p)
    /\ pre' = db
    /\ \E ok \in (IF Up(p) THEN {TRUE, FALSE} ELSE {TRUE}) :
           /\ conn' = [conn EXCEPT ![p] = "closed"]
           /\ valid' = [valid EXCEPT ![p] = FALSE]
           /\ Return(p, "Close", "-", IF ok THEN "nil" ELSE "sqlError", {},
                     FALSE)
    /\ UNCHANGED <<db, tx, hs, vs, ps, now, rt, active>>

Close(p) ==
    /\ Idle(p)
    /\ pre' = db
    /\ \E ok \in (IF Up(p) THEN {TRUE, FALSE} ELSE {TRUE}) :
           /\ conn' = [conn EXCEPT ![p] = "closed"]
           /\ valid' = [valid EXCEPT ![p] = IF ok THEN FALSE ELSE @]
           /\ Return(p, "Close", "-", IF ok THEN "nil" ELSE "sqlError", {},
                     FALSE)
    /\ UNCHANGED <<db, tx, hs, vs, ps, now, rt, active>>

----------------------------------------------------------------------------
\* The state after NewSqliteState: an open store over the empty tables, live
\* handles, nothing called yet.

NoCall == Result("-", "none", "-", "nil", {}, FALSE, FALSE)

InitWith(procs) ==
    /\ db = EmptyDB
    /\ tx = [p \in Procs |-> NoTx]
    /\ pc = [p \in Procs |-> IdlePC]
    /\ valid = [p \in Procs |-> TRUE]
    /\ conn = [p \in Procs |-> "open"]
    /\ hs = [p \in Procs |->
               [h \in AllCtrHandles |->
                   [valid |-> TRUE, state |-> NewContainerState]]]
    /\ vs = [p \in Procs |->
               [h \in VolHandles |-> [valid |-> TRUE, state |-> NewVolumeState]]]
    /\ ps = [p \in Procs |-> [h \in PodHandles |-> TRUE]]
    /\ last = NoCall
    /\ pre = EmptyDB
    /\ now = 0
    /\ rt = [p \in Procs |-> RuntimeA]
    /\ active = procs

\* The store used by one process, or shared by two.
Init == \E procs \in {{"p1"}, {"p1", "p2"}} : InitWith(procs)

\* Adding and removing containers and volumes.
EntityStep(p) ==
    \/ \E h \in CtrHandles : AddContainer(p, h)
    \/ addContainerConfig(p)
    \/ addContainerState(p)
    \/ addContainerEdges(p)
    \/ addContainerCommit(p)
    \/ \E h \in CtrHandles : RemoveContainer(p, h)
    \/ removeContainerGuard(p)
    \/ removeContainerDelete(p)
    \/ removeContainerCommit(p)
    \/ \E h \in VolHandles : AddVolumeBegin(p, h)
    \/ AddVolumeInsertConfig(p)
    \/ AddVolumeInsertState(p)
    \/ AddVolumeCommit(p)
    \/ \E h \in VolHandles : RemoveVolumeBegin(p, h)
    \/ RemoveVolumeQueryUsers(p)
    \/ RemoveVolumeDeleteConfig(p)
    \/ RemoveVolumeDeleteState(p)
    \/ RemoveVolumeCommit(p)

Next == \E p \in Procs : EntityStep(p)

Spec == Init /\ [][Next]_vars

----------------------------------------------------------------------------
\* Recovery: one process fills the store and runs Refresh.

InitRefresh == InitWith({"p1"})

RefreshStep(p) ==
    \/ RefreshLoad(p)
    \/ RefreshBegin(p)
    \/ RefreshUpdateStates(p)
    \/ RefreshDeleteExitCodes(p)
    \/ RefreshDeleteExecSessions(p)
    \/ RefreshCommit(p)

NextRefresh ==
    \E p \in {"p1"} :
        \/ RefreshStep(p)
        \/ \E h \in {"web"} : AddContainer(p, h)
        \/ addContainerConfig(p)
        \/ addContainerState(p)
        \/ addContainerEdges(p)
        \/ addContainerCommit(p)
        \/ \E h \in {"web"}, st \in {RunningState} : SaveContainer(p, h, st)
        \/ \E h \in VolHandles : AddVolumeBegin(p, h)
        \/ AddVolumeInsertConfig(p)
        \/ AddVolumeInsertState(p)
        \/ AddVolumeCommit(p)
        \/ \E h \in {"web"}, sid \in ExecIDs : AddExecSession(p, h, sid)
        \/ \E c \in {137} : AddContainerExitCode(p, IdWeb, c)

SpecRefresh == InitRefresh /\ [][NextRefresh]_vars

----------------------------------------------------------------------------
\* One process mutating the store; every call may fail at any of its steps.

InitOps == InitWith({"p1"})

VolumeStep(p) ==
    \/ \E h \in VolHandles : AddVolumeBegin(p, h)
    \/ AddVolumeInsertConfig(p)
    \/ AddVolumeInsertState(p)
    \/ AddVolumeCommit(p)
    \/ \E h \in VolHandles : RemoveVolumeBegin(p, h)
    \/ RemoveVolumeQueryUsers(p)
    \/ RemoveVolumeDeleteConfig(p)
    \/ RemoveVolumeDeleteState(p)
    \/ RemoveVolumeCommit(p)
    \/ \E h \in VolHandles, st \in {MountedVolumeState} : SaveVolume(p, h, st)

ValidateDBConfigStep(p) ==
    \/ ValidateDBConfigQuery(p, rt[p])
    \/ ValidateDBConfigBegin(p)
    \/ ValidateDBConfigInsert(p)
    \/ ValidateDBConfigCommit(p)

NextOps ==
    \E p \in {"p1"} :
        \/ VolumeStep(p)
        \/ ValidateDBConfigStep(p)
        \/ \E h \in {"web"} : AddContainer(p, h)
        \/ addContainerConfig(p)
        \/ addContainerState(p)
        \/ addContainerEdges(p)
        \/ addContainerCommit(p)
        \/ \E h \in {"web"}, st \in {RunningState} : SaveContainer(p, h, st)
        \/ \E h \in {"web"}, sid \in {<<"e", "1">>} : AddExecSession(p, h, sid)
        \/ \E sid \in {<<"e", "1">>} : RemoveExecSession(p, sid)
        \/ \E h \in {"web"} : RemoveContainerExecSessions(p, h)
        \/ \E c \in {137} : AddContainerExitCode(p, IdWeb, c)
        \/ PruneContainerExitCodes(p)

SpecOps == InitOps /\ [][NextOps]_vars

----------------------------------------------------------------------------
\* One process adds containers and looks them up.

\* The terms looked up: a proper prefix of one ID, a prefix shared by two
\* IDs, a full ID (which is also a name), a full ID in upper case, a name,
\* a pattern with a wildcard, and a term that matches nothing.
Terms ==
    {<<"a", "b", "c", "1">>, <<"a", "b", "c">>, IdWeb, IdApp,
     <<"A", "B", "C", "4", "5", "6">>, <<"w", "e", "b">>,
     <<"a", "b", "c", "%">>, <<"z">>}

InitLookup == InitWith({"p1"})

NextLookup ==
    \E p \in {"p1"} :
        \/ \E h \in {"web", "app", "alias"} : AddContainer(p, h)
        \/ addContainerConfig(p)
        \/ addContainerState(p)
        \/ addContainerEdges(p)
        \/ addContainerCommit(p)
        \/ \E h \in VolHandles : AddVolumeBegin(p, h)
        \/ AddVolumeInsertConfig(p)
        \/ AddVolumeInsertState(p)
        \/ AddVolumeCommit(p)
        \/ \E t \in Terms : LookupContainerID(p, t)
        \/ \E t \in Terms : LookupContainer(p, t)

SpecLookup == InitLookup /\ [][NextLookup]_vars

----------------------------------------------------------------------------
\* One process closes the store and goes on calling it.  Before Close it may
\* update a container or a volume that has no row, which invalidates the
\* handle.  A pod handle is made, and invalidated, by the runtime outside
\* the store: it starts live or invalidated.

InitClosed ==
    /\ db = EmptyDB
    /\ tx = [p \in Procs |-> NoTx]
    /\ pc = [p \in Procs |-> IdlePC]
    /\ valid = [p \in Procs |-> TRUE]
    /\ conn = [p \in Procs |-> "open"]
    /\ hs = [p \in Procs |->
               [h \in AllCtrHandles |->
                   [valid |-> TRUE, state |-> NewContainerState]]]
    /\ vs = [p \in Procs |->
               [h \in VolHandles |-> [valid |-> TRUE, state |-> NewVolumeState]]]
    /\ \E live \in BOOLEAN : ps = [p \in Procs |-> [h \in PodHandles |-> live]]
    /\ last = NoCall
    /\ pre = EmptyDB
    /\ now = 0
    /\ rt = [p \in Procs |-> RuntimeA]
    /\ active = {"p1"}

\* The IDs and names passed to a closed store: an empty one and a real one.
ClosedIDs == {NoText, IdWeb}

ClosedContainerCall(p) ==
    \/ \E id \in ClosedIDs : GetContainerName(p, id)
    \/ \E id \in ClosedIDs : GetPodName(p, id)
    \/ \E id \in ClosedIDs : Container(p, id)
    \/ \E id \in ClosedIDs : LookupContainerID(p, id)
    \/ \E id \in ClosedIDs : LookupContainer(p, id)
    \/ \E id \in ClosedIDs : HasContainer(p, id)
    \/ \E h \in {"web", "member"} : AddContainer(p, h)
    \/ \E h \in {"web", "member"} : RemoveContainer(p, h)
    \/ \E h \in {"web"} : UpdateContainer(p, h)
    \/ \E h \in {"web"}, st \in {RunningState} : SaveContainer(p, h, st)
    \/ \E h \in {"web"} : ContainerInUse(p, h)
    \/ \E loadState \in BOOLEAN : AllContainers(p, loadState)
    \/ \E h \in {"web"} : GetNetworks(p, h)
    \/ \E h \in {"web"} : NetworkConnect(p, h, <<"n">>)
    \/ \E h \in {"web"} : NetworkModify(p, h, <<"n">>)
    \/ \E h \in {"web"} : NetworkDisconnect(p, h, <<"n">>)
    \/ \E id \in ClosedIDs : GetContainerConfig(p, id)
    \/ \E h \in {"web"} : RewriteContainerConfig(p, h, CfgWeb)
    \/ \E h \in {"web"}, n \in {NoText, CfgWeb.Name} :
           SafeRewriteContainerConfig(p, h, CfgWeb.Name, n, CfgWeb)

ClosedSessionCall(p) ==
    \/ \E id \in ClosedIDs : AddContainerExitCode(p, id, 137)
    \/ \E id \in ClosedIDs : GetContainerExitCode(p, id)
    \/ \E id \in ClosedIDs : GetContainerExitCodeTimeStamp(p, id)
    \/ PruneContainerExitCodes(p)
    \/ \E h \in {"web"}, sid \in ExecIDs : AddExecSession(p, h, sid)
    \/ \E id \in {NoText} \cup ExecIDs : GetExecSession(p, id)
    \/ \E sid \in ExecIDs : RemoveExecSession(p, sid)
    \/ \E h \in {"web"} : GetContainerExecSessions(p, h)
    \/ \E h \in {"web"} : RemoveContainerExecSessions(p, h)

ClosedPodCall(p) ==
    \/ \E id \in {NoText, IdPod} : Pod(p, id)
    \/ \E id \in {NoText, IdPod} : LookupPod(p, id)
    \/ \E id \in {NoText, IdPod} : HasPod(p, id)
    \/ \E pod \in PodHandles, id \in ClosedIDs : PodHasContainer(p, pod, id)
    \/ \E pod \in PodHandles : PodContainersByID(p, pod)
    \/ \E pod \in PodHandles : PodContainers(p, pod)
    \/ \E pod \in PodHandles : AddPod(p, pod)
    \/ \E pod \in PodHandles : RemovePod(p, pod)
    \/ \E pod \in PodHandles : RemovePodContainers(p, pod)
    \/ \E pod \in PodHandles : UpdatePod(p, pod)
    \/ \E pod \in PodHandles : SavePod(p, pod)
    \/ \E pod \in PodHandles : RewritePodConfig(p, pod)
    \/ AllPods(p)
    \/ \E pod \in PodHandles, h \in {"web", "member"} :
           AddContainerToPod(p, pod, h)
    \/ \E pod \in PodHandles, h \in {"web", "member"} :
           RemoveContainerFromPod(p, pod, h)

ClosedVolumeCall(p) ==
    \/ \E h \in VolHandles : AddVolumeBegin(p, h)
    \/ \E h \in VolHandles : RemoveVolumeBegin(p, h)
    \/ \E h \in VolHandles : UpdateVolume(p, h)
    \/ \E h \in VolHandles, st \in {MountedVolumeState} : SaveVolume(p, h, st)
    \/ \E h \in VolHandles : RewriteVolumeConfig(p, h)
    \/ AllVolumes(p)
    \/ \E name \in {NoText, NameVol} : Volume(p, name)
    \/ \E name \in {NoText, NameVol} : LookupVolume(p, name)
    \/ \E name \in {NoText, NameVol} : HasVolume(p, name)
    \/ \E h \in VolHandles : VolumeInUse(p, h)
    \/ \E id \in ClosedIDs : ContainerIDIsVolume(p, id)

ClosedStoreCall(p) ==
    \/ RefreshLoad(p)
    \/ GetDBConfig(p)
    \/ ValidateDBConfigQuery(p, rt[p])

NextClosed ==
    \E p \in {"p1"} :
        \/ Close(p)
        \/ valid[p] /\ \E h \in {"web"} : UpdateContainer(p, h)
        \/ valid[p] /\ \E h \in VolHandles : UpdateVolume(p, h)
        \/ ~valid[p] /\ ClosedContainerCall(p)
        \/ ~valid[p] /\ ClosedSessionCall(p)
        \/ ~valid[p] /\ ClosedPodCall(p)
        \/ ~valid[p] /\ ClosedVolumeCall(p)
        \/ ~valid[p] /\ ClosedStoreCall(p)

SpecClosed == InitClosed /\ [][NextClosed]_vars

----------------------------------------------------------------------------
\* One process calls every operation that takes a container or volume
\* handle.  An update of an entity that has no row invalidates its handle.

InitHandles == InitWith({"p1"})

HandleContainerCall(p) ==
    \/ \E h \in {"web", "member"} : UpdateContainer(p, h)
    \/ \E h \in {"web"}, st \in {RunningState} : SaveContainer(p, h, st)
    \/ \E h \in {"web"} : ContainerInUse(p, h)
    \/ \E h \in {"web"} : GetNetworks(p, h)
    \/ \E h \in {"web"} : NetworkConnect(p, h, <<"n">>)
    \/ \E h \in {"web"} : NetworkModify(p, h, <<"n">>)
    \/ \E h \in {"web"} : NetworkDisconnect(p, h, <<"n">>)
    \/ \E h \in {"web"}, sid \in {<<"e", "1">>} : AddExecSession(p, h, sid)
    \/ \E h \in {"web"} : GetContainerExecSessions(p, h)
    \/ \E h \in {"web"} : RemoveContainerExecSessions(p, h)
    \/ \E h \in {"web"} : RewriteContainerConfig(p, h, CfgWeb)
    \/ \E h \in {"web"} :
           SafeRewriteContainerConfig(p, h, CfgWeb.Name, CfgWeb.Name, CfgWeb)

HandleVolumeCall(p) ==
    \/ \E h \in VolHandles : UpdateVolume(p, h)
    \/ \E h \in VolHandles, st \in {MountedVolumeState} : SaveVolume(p, h, st)
    \/ \E h \in VolHandles : VolumeInUse(p, h)
    \/ \E h \in VolHandles : RewriteVolumeConfig(p, h)

NextHandles ==
    \E p \in {"p1"} :
        \/ HandleContainerCall(p)
        \/ HandleVolumeCall(p)
        \/ \E h \in {"web", "member"} : AddContainer(p, h)
        \/ \E pod \in PodHandles, h \in {"web", "member"} :
               AddContainerToPod(p, pod, h)
        \/ addContainerConfig(p)
        \/ addContainerState(p)
        \/ addContainerEdges(p)
        \/ addContainerCommit(p)
        \/ \E h \in {"web", "member"} : RemoveContainer(p, h)
        \/ \E pod \in PodHandles, h \in {"web", "member"} :
               RemoveContainerFromPod(p, pod, h)
        \/ removeContainerGuard(p)
        \/ removeContainerDelete(p)
        \/ removeContainerCommit(p)
        \/ VolumeStep(p)

SpecHandles == InitHandles /\ [][NextHandles]_vars

----------------------------------------------------------------------------
\* Two processes share the store and each holds a handle to the same
\* container: the first adds the container and saves its state, the second
\* re-reads the state and removes the container.

InitShared == InitWith({"p1", "p2"})

NextShared ==
    \/ \E h \in {"web"} : AddContainer("p1", h)
    \/ \E h \in {"web"}, st \in {RunningState} : SaveContainer("p1", h, st)
    \/ \E p \in Procs, h \in {"web"} : UpdateContainer(p, h)
    \/ \E h \in {"web"} : RemoveContainer("p2", h)
    \/ \E p \in Procs :
        \/ addContainerConfig(p)
        \/ addContainerState(p)
        \/ addContainerEdges(p)
        \/ addContainerCommit(p)
        \/ removeContainerGuard(p)
        \/ removeContainerDelete(p)
        \/ removeContainerCommit(p)

SpecShared == InitShared /\ [][NextShared]_vars

----------------------------------------------------------------------------
\* One process adds containers, saves a state and reads the containers back.

\* The IDs read back: those of the three configs, and one never stored.
ReadIDs == {IdWeb, IdApp, IdAlias, <<"z">>}

InitRead == InitWith({"p1"})

NextRead ==
    \E p \in {"p1"} :
        \/ \E h \in {"web", "app", "alias"} : AddContainer(p, h)
        \/ addContainerConfig(p)
        \/ addContainerState(p)
        \/ addContainerEdges(p)
        \/ addContainerCommit(p)
        \/ \E h \in VolHandles : AddVolumeBegin(p, h)
        \/ AddVolumeInsertConfig(p)
        \/ AddVolumeInsertState(p)
        \/ AddVolumeCommit(p)
        \/ \E h \in {"web"}, st \in {RunningState} : SaveContainer(p, h, st)
        \/ \E id \in ReadIDs : Container(p, id)
        \/ \E id \in ReadIDs : GetContainerConfig(p, id)

SpecRead == InitRead /\ [][NextRead]_vars

----------------------------------------------------------------------------
\* One process adds containers and volumes whose IDs and names collide.

InitUnique == InitWith({"p1"})

NextUnique ==
    \E p \in {"p1"} :
        \/ \E h \in {"web", "alias", "twin"} : AddContainer(p, h)
        \/ addContainerConfig(p)
        \/ addContainerState(p)
        \/ addContainerEdges(p)
        \/ addContainerCommit(p)
        \/ \E h \in VolHandles : AddVolumeBegin(p, h)
        \/ AddVolumeInsertConfig(p)
        \/ AddVolumeInsertState(p)
        \/ AddVolumeCommit(p)
        \/ \E h \in {"web"}, st \in {RunningState} : SaveContainer(p, h, st)
        \/ \E h \in VolHandles : UpdateVolume(p, h)

SpecUnique == InitUnique /\ [][NextUnique]_vars

----------------------------------------------------------------------------
\* Properties of adding and removing entities (specification Spec).

Sequential == active = {"p1"}

\* C1: in the committed database a container has a configuration row if and
\* only if it has a state row, and the same holds for volumes and for pods.
ConfigIffState ==
    /\ {r.ID : r \in db.ContainerConfig} = {r.ID : r \in db.ContainerState}
    /\ {r.Name : r \in db.VolumeConfig} = {r.Name : r \in db.VolumeState}
    /\ {r.ID : r \in db.PodConfig} = {r.ID : r \in db.PodState}

\* A transaction has written a volume's configuration row and not yet its
\* state row, while the committed database already holds a container.
ConfigIffStateWitness ==
    /\ db.ContainerConfig # {}
    /\ \E p \in active :
          /\ tx[p].st = "write"
          /\ {r.Name : r \in tx[p].view.VolumeConfig}
                 # {r.Name : r \in tx[p].view.VolumeState}

\* C3: RemoveContainer of a container that some dependency edge names as its
\* target fails, deletes nothing and (unless the driver failed first) reports
\* the in-use error with exactly the dependents; a successful RemoveContainer
\* leaves no edge naming the container; and no dependency edge of the
\* committed database ever names a container that does not exist.
DependencyGuard ==
    /\ \A e \in db.ContainerDependency :
          e.DependencyID \in {r.ID : r \in db.ContainerConfig}
    /\ (Sequential /\ last.op = "RemoveContainer") =>
          LET id == CtrConfigOf(last.arg).ID
              edges == {e \in pre.ContainerDependency : e.DependencyID = id}
          IN /\ edges # {} =>
                   /\ last.err \in {"ErrDepExists", "sqlError"}
                   /\ db = pre
                   /\ last.err = "ErrDepExists" =>
                          last.out = {e.ID : e \in edges}
             /\ last.err = "ErrDepExists" => edges # {}
             /\ last.err = "nil" =>
                   \A e \in db.ContainerDependency : e.DependencyID # id

\* RemoveContainer was refused because another container depends on it.
DependencyGuardWitness ==
    /\ Sequential
    /\ last.op = "RemoveContainer"
    /\ last.err = "ErrDepExists"
    /\ last.out = {IdApp}
    /\ db.ContainerDependency # {}

\* C4: RemoveVolume of a volume that some usage edge names fails, deletes
\* nothing and (unless the driver failed first) reports the in-use error with
\* exactly the using containers; a successful RemoveVolume leaves no edge
\* naming the volume; and no usage edge of the committed database ever names
\* a volume that does not exist.
VolumeGuard ==
    /\ \A e \in db.ContainerVolume :
          e.VolumeName \in {r.Name : r \in db.VolumeConfig}
    /\ (Sequential /\ last.op = "RemoveVolume") =>
          LET name == VolConfigOf(last.arg).Name
              edges == {e \in pre.ContainerVolume : e.VolumeName = name}
          IN /\ edges # {} =>
                   /\ last.err \in {"ErrVolumeBeingUsed", "sqlError"}
                   /\ db = pre
                   /\ last.err = "ErrVolumeBeingUsed" =>
                          last.out = {e.ContainerID : e \in edges}
             /\ last.err = "ErrVolumeBeingUsed" => edges # {}
             /\ last.err = "nil" =>
                   \A e \in db.ContainerVolume : e.VolumeName # name

\* RemoveVolume was refused because a container uses the volume.
VolumeGuardWitness ==
    /\ Sequential
    /\ last.op = "RemoveVolume"
    /\ last.err = "ErrVolumeBeingUsed"
    /\ last.out = {IdApp}
    /\ db.ContainerVolume # {}

----------------------------------------------------------------------------
\* Properties of the mutating calls (specification SpecOps).

MutatingOps ==
    {"SaveContainer", "AddExecSession", "RemoveExecSession",
     "RemoveContainerExecSessions", "AddContainerExitCode",
     "PruneContainerExitCodes", "AddVolume", "RemoveVolume", "SaveVolume",
     "ValidateDBConfig"}

\* C2: when a mutating call returns an error, every table holds exactly the
\* rows it held when the call began.
FailedCallChangesNothing ==
    (last.op \in MutatingOps /\ last.err # "nil") => db = pre

\* RemoveExecSession failed after its DELETE had found the session, in a
\* store that also holds a container, a volume and the configuration row.
FailedCallChangesNothingWitness ==
    /\ last.op = "RemoveExecSession"
    /\ last.err = "sqlError"
    /\ last.arg \in {r.ID : r \in db.ContainerExecSession}
    /\ db.ContainerState # {}
    /\ db.VolumeState # {}
    /\ db.DBConfig # {}

----------------------------------------------------------------------------
\* Properties of the lookups (specification SpecLookup).

LookupOps == {"LookupContainerID", "LookupContainer"}

IsPrefix(t, id) == Len(t) <= Len(id) /\ SubSeq(id, 1, Len(t)) = t

\* The rows a term stands for: its Name equals the term, or its ID begins
\* with the term.
NameOrPrefixRows(d, t) ==
    {r \in d.ContainerConfig : r.Name = t \/ IsPrefix(t, r.ID)}

\* The ID of the container a successful lookup returned.
FoundID == IF last.op = "LookupContainerID" THEN last.out
           ELSE last.out.config.ID

\* C5: a lookup whose term is the Name, or a prefix of the ID, of exactly one
\* stored container returns that container (unless the driver fails): with
\* abc123 and abc456 stored, abc1 resolves to abc123.
LookupByNameOrPrefix ==
    (last.op \in LookupOps /\ last.err # "sqlError") =>
        \A r \in db.ContainerConfig :
            NameOrPrefixRows(db, last.arg) = {r} =>
                last.err = "nil" /\ FoundID = r.ID

\* C6: a lookup of a non-empty term returns not-found when no container
\* matches the term (by Name or by ID prefix), the matching container when
\* exactly one matches, and the ambiguity error and no container when two or
\* more match; and it leaves the store as it was.
LookupUniqueMatch ==
    (last.op \in LookupOps /\ last.err # "sqlError") =>
        LET n == Cardinality(NameOrPrefixRows(pre, last.arg)) IN
        /\ db = pre
        /\ n = 0 => last.err = "ErrNoSuchCtr"
        /\ n = 1 => /\ last.err = "nil"
                    /\ \E r \in NameOrPrefixRows(pre, last.arg) : FoundID = r.ID
        /\ n > 1 => last.err = "ErrCtrExists" /\ last.out \in {NoText, {}}

----------------------------------------------------------------------------
\* Properties of Refresh (specification SpecRefresh).

\* C7: a Refresh that returns an error leaves every table with exactly the
\* rows it held before the call, and nothing Refresh writes is visible in
\* the committed database while the call is still running.
RefreshAllOrNothing ==
    /\ (last.op = "Refresh" /\ last.err # "nil") => db = pre
    /\ (\E p \in active : pc[p][1] = "Refresh") => db = pre

\* Refresh failed in its write phase on a store that holds a state row, an
\* exit code and an exec session.
RefreshAllOrNothingWitness ==
    /\ last.op = "Refresh"
    /\ last.err = "sqlSyntax"
    /\ db.ContainerState # {}
    /\ db.ContainerExitCode # {}
    /\ db.ContainerExecSession # {}

ResetRows(rows, Un(_), Reset(_), Ma(_)) ==
    {[r EXCEPT !.JSON = Ma(Reset(Un(r.JSON)))] : r \in rows}

\* C8: unless the store is closed or the driver fails, Refresh succeeds,
\* empties the exit-code and exec-session tables, leaves in every state row
\* the reset of the value it held, and changes no other table.
RefreshResets ==
    (last.op = "Refresh" /\ last.err \notin {"ErrDBClosed", "sqlError"}) =>
        /\ last.err = "nil"
        /\ db.ContainerExitCode = {}
        /\ db.ContainerExecSession = {}
        /\ db.ContainerState =
               ResetRows(pre.ContainerState, UnmarshalCtrState,
                         resetContainerState, MarshalCtrState)
        /\ db.VolumeState =
               ResetRows(pre.VolumeState, UnmarshalVolState,
                         resetVolumeState, MarshalVolState)
        /\ db.PodState =
               ResetRows(pre.PodState, UnmarshalPodState,
                         resetPodState, MarshalPodState)
        /\ \A t \in {"ContainerConfig", "PodConfig", "VolumeConfig", "DBConfig",
                     "ContainerDependency", "ContainerVolume"} : db[t] = pre[t]

ClosedFailsFast ==
    (last.op \notin {"Close", "none"} /\ ~valid[last.p])
        => (last.err = "ErrDBClosed" /\ ~last.q)

----------------------------------------------------------------------------
\* Properties of invalidated handles (specification SpecHandles).

CtrHandleOps ==
    {"AddContainer", "RemoveContainer", "AddContainerToPod",
     "RemoveContainerFromPod", "UpdateContainer", "SaveContainer",
     "ContainerInUse", "GetNetworks", "NetworkConnect", "NetworkModify",
     "NetworkDisconnect", "AddExecSession", "GetContainerExecSessions",
     "RemoveContainerExecSessions", "RewriteContainerConfig",
     "SafeRewriteContainerConfig"}

VolHandleOps ==
    {"AddVolume", "RemoveVolume", "UpdateVolume", "SaveVolume", "VolumeInUse",
     "RewriteVolumeConfig"}

\* The handle a returned call was given.
CalledHandle(r) ==
    IF r.op \in {"AddExecSession", "RewriteContainerConfig",
                 "SafeRewriteContainerConfig", "NetworkConnect",
                 "NetworkModify", "NetworkDisconnect"}
    THEN r.arg[1] ELSE r.arg

RemovedErrors ==
    {"ErrCtrRemoved", "ErrVolumeRemoved", "ErrNoSuchCtr", "ErrNoSuchVolume"}

\* C11: a call that returns on an open store, having been given a container
\* or volume handle that was already invalidated, returns a removed or
\* not-found error, has issued no statement and has changed no table.
InvalidatedFailsFast ==
    [][(/\ last'.op \in CtrHandleOps \cup VolHandleOps
        /\ pc'[last'.p] = IdlePC
        /\ valid[last'.p]
        /\ IF last'.op \in CtrHandleOps
           THEN ~hs[last'.p][CalledHandle(last')].valid
           ELSE ~vs[last'.p][CalledHandle(last')].valid)
       => (/\ last'.err \in RemovedErrors
           /\ ~last'.q
           /\ db' = pre')]_vars

----------------------------------------------------------------------------
\* Properties of a handle whose container another process removes
\* (specification SpecShared).

\* No call is in progress: `last` is the call that returned last.  When that
\* call is a single step, or the store has one user, `pre` is the committed
\* database it started from.
Quiet == \A p \in Procs : pc[p] = IdlePC

StateRowsOf(d, h) == {r \in d.ContainerState : r.ID = CtrConfigOf(h).ID}

\* C12: a SaveContainer that got past its checks (the store open, the handle
\* live) and that the driver did not fail, on a container whose State row is
\* gone, returns the no-such-container error, leaves the handle invalidated
\* and leaves every table as it was, so the container stays absent; and it
\* returns that error only when the row is gone.
SaveAfterRemoval ==
    (Quiet /\ last.op = "SaveContainer" /\ last.q /\ last.err # "sqlError") =>
        /\ StateRowsOf(pre, last.arg) = {} =>
              /\ last.err = "ErrNoSuchCtr"
              /\ ~hs[last.p][last.arg].valid
              /\ db = pre
              /\ StateRowsOf(db, last.arg) = {}
        /\ last.err = "ErrNoSuchCtr" => StateRowsOf(pre, last.arg) = {}

\* The first process saved the running state, the second read it from the
\* store (it never saves) and then removed the container, and the first
\* process's next SaveContainer found no row.
SaveAfterRemovalWitness ==
    /\ last.p = "p1"
    /\ last.op = "SaveContainer"
    /\ last.err = "ErrNoSuchCtr"
    /\ ~hs["p1"]["web"].valid
    /\ hs["p2"]["web"].state = RunningState
    /\ db.ContainerConfig = {}

\* C13: an UpdateContainer on a live handle of an open store writes nothing;
\* when the State row exists it succeeds (unless the driver fails the read)
\* and the handle holds the persisted state; when the row is absent it
\* returns the no-such-container error and invalidates the handle, whose
\* in-memory state stays as it was; it succeeds only when the row exists.
UpdateReadsState ==
    [][(/\ pc' = pc
        /\ last'.op = "UpdateContainer"
        /\ valid[last'.p]
        /\ hs[last'.p][last'.arg].valid)
       => LET h == hs[last'.p][last'.arg]
              rows == StateRowsOf(db, last'.arg)
          IN /\ db' = db
             /\ last'.err \in {"nil", "ErrNoSuchCtr", "jsonError"}
             /\ (rows # {} /\ last'.err # "jsonError") =>
                   /\ last'.err = "nil"
                   /\ \A r \in rows :
                         hs'[last'.p][last'.arg] =
                             [valid |-> TRUE,
                              state |-> UnmarshalCtrState(r.JSON)]
             /\ (rows = {} /\ last'.err # "jsonError") =>
                   /\ last'.err = "ErrNoSuchCtr"
                   /\ hs'[last'.p][last'.arg] = [h EXCEPT !.valid = FALSE]
             /\ last'.err = "nil" => rows # {}
             /\ last'.err = "jsonError" => hs'[last'.p][last'.arg] = h]_vars

\* The second process, which never saves, had re-read the running state
\* from the store; after the container's removal its next update found no
\* row and invalidated the handle, which still holds the running state.
UpdateReadsStateWitness ==
    /\ last.p = "p2"
    /\ last.op = "UpdateContainer"
    /\ last.err = "ErrNoSuchCtr"
    /\ hs["p2"]["web"] = [valid |-> FALSE, state |-> RunningState]

----------------------------------------------------------------------------
\* Properties of reading a container back (specification SpecRead).

\* The config that was handed to AddContainer under an ID.
AddedConfig(id) ==
    CtrConfigOf(CHOOSE h \in AllCtrHandles : CtrConfigOf(h).ID = id)

----------------------------------------------------------------------------
\* Properties of colliding IDs and names (specification SpecUnique).

\* C15: unless the driver fails, AddContainer of a config whose ID or Name a
\* stored container has returns the container-exists error, and AddVolume of
\* a name a stored volume has returns the volume-exists error; both leave
\* every table as it was; and the stored containers have pairwise distinct
\* IDs and pairwise distinct Names, the stored volumes distinct Names.
AddExistingFails ==
    /\ \A r1, r2 \in db.ContainerConfig :
          (r1.ID = r2.ID \/ r1.Name = r2.Name) => r1 = r2
    /\ \A r1, r2 \in db.VolumeConfig : r1.Name = r2.Name => r1 = r2
    /\ (Quiet /\ last.op = "AddContainer" /\ last.q /\ last.err # "sqlError"
          /\ \E r \in pre.ContainerConfig :
                \/ r.ID = CtrConfigOf(last.arg).ID
                \/ r.Name = CtrConfigOf(last.arg).Name)
         => (last.err = "ErrCtrExists" /\ db = pre)
    /\ (Quiet /\ last.op = "AddVolume" /\ last.q /\ last.err # "sqlError"
          /\ \E r \in pre.VolumeConfig : r.Name = VolConfigOf(last.arg).Name)
         => (last.err = "ErrVolumeExists" /\ db = pre)

----------------------------------------------------------------------------
\* Properties of the plain and the pod-aware entry points (specification
\* SpecHandles).

\* C16: on an open store, AddContainer on an invalidated handle returns the
\* container-removed error, and on a live handle whose config names a pod
\* the invalid-argument error; either way it issues no statement and changes
\* no table; and it returns invalid-argument only for a config that names a
\* pod.
AddContainerRefuses ==
    (Quiet /\ last.op = "AddContainer" /\ valid[last.p]) =>
        LET h == hs[last.p][last.arg]
            refused == ~last.q /\ db = pre
        IN /\ ~h.valid => (last.err = "ErrCtrRemoved" /\ refused)
           /\ (h.valid /\ CtrConfigOf(last.arg).Pod # NoText) =>
                 (last.err = "ErrInvalidArg" /\ refused)
           /\ last.err = "ErrInvalidArg" => CtrConfigOf(last.arg).Pod # NoText
           /\ last.err = "ErrCtrRemoved" => ~h.valid

\* AddContainer refused a live handle of a pod's container, on a store that
\* holds a container.
AddContainerRefusesWitness ==
    /\ last.op = "AddContainer"
    /\ last.arg = "member"
    /\ last.err = "ErrInvalidArg"
    /\ hs[last.p]["member"].valid
    /\ db.ContainerConfig # {}
    /\ db = pre

----------------------------------------------------------------------------
\* C17: RemoveContainer on an open store, called with a handle whose config
\* carries a non-empty Pod reference, fails with the invalid-argument error
\* kind, issues no statement and leaves every table as it was.
RemoveContainerOfPodMember ==
    (/\ Quiet
     /\ last.op = "RemoveContainer"
     /\ valid[last.p]
     /\ CtrConfigOf(last.arg).Pod # NoText) =>
        /\ last.err = "ErrInvalidArg"
        /\ ~last.q
        /\ db = pre

----------------------------------------------------------------------------
\* One process holds a pod handle and three container handles: a plain
\* container, a member of the pod and a member of another pod.  It adds and
\* removes them through the plain and the pod-aware entry points.

PodMembers == {"web", "member", "stray"}

InitPods ==
    /\ db = EmptyDB
    /\ tx = [p \in Procs |-> NoTx]
    /\ pc = [p \in Procs |-> IdlePC]
    /\ valid = [p \in Procs |-> TRUE]
    /\ conn = [p \in Procs |-> "open"]
    /\ hs = [p \in Procs |->
               [h \in AllCtrHandles |->
                   [valid |-> TRUE, state |-> NewContainerState]]]
    /\ vs = [p \in Procs |->
               [h \in VolHandles |-> [valid |-> TRUE, state |-> NewVolumeState]]]
    /\ \E live \in BOOLEAN : ps = [p \in Procs |-> [h \in PodHandles |-> live]]
    /\ last = NoCall
    /\ pre = EmptyDB
    /\ now = 0
    /\ rt = [p \in Procs |-> RuntimeA]
    /\ active = {"p1"}

NextPods ==
    \E p \in {"p1"} :
        \/ \E h \in PodMembers : AddContainer(p, h)
        \/ \E pod \in PodHandles, h \in PodMembers : AddContainerToPod(p, pod, h)
        \/ addContainerConfig(p)
        \/ addContainerState(p)
        \/ addContainerEdges(p)
        \/ addContainerCommit(p)
        \/ \E h \in PodMembers : RemoveContainer(p, h)
        \/ \E pod \in PodHandles, h \in PodMembers :
               RemoveContainerFromPod(p, pod, h)
        \/ removeContainerGuard(p)
        \/ removeContainerDelete(p)
        \/ removeContainerCommit(p)
        \/ \E h \in PodMembers : UpdateContainer(p, h)
        \/ \E h \in {"web"}, st \in {RunningState} : SaveContainer(p, h, st)

SpecPods == InitPods /\ [][NextPods]_vars

\* C18: on an open store, AddContainerToPod changes the store only when the
\* container's Pod reference equals the pod's ID, and RemoveContainerFromPod
\* only when the reference is non-empty and equals the pod's ID; in every
\* other case the call returns an error and every table is as it was.  And
\* every stored container with a non-empty Pod reference names a stored pod.
PodMembership ==
    /\ (Quiet /\ last.op = "AddContainerToPod" /\ valid[last.p]) =>
           LET c == CtrConfigOf(last.arg)
               matches == \E pod \in PodHandles : c.Pod = PodIDOf(pod)
           IN /\ db # pre => (matches /\ last.err = "nil")
              /\ ~matches => (last.err # "nil" /\ db = pre)
    /\ (Quiet /\ last.op = "RemoveContainerFromPod" /\ valid[last.p]) =>
           LET c == CtrConfigOf(last.arg)
               matches == /\ c.Pod # NoText
                          /\ \E pod \in PodHandles : c.Pod = PodIDOf(pod)
           IN /\ db # pre => (matches /\ last.err = "nil")
              /\ ~matches => (last.err # "nil" /\ db = pre)
    /\ \A row \in db.ContainerConfig :
           row.PodID # NoText => row.PodID \in Col(db.PodConfig, "ID")

\* RemoveContainerFromPod was refused for a stored container that belongs to
\* no pod, after AddContainerToPod had been refused for it.
PodMembershipWitness ==
    /\ Quiet
    /\ last.op = "RemoveContainerFromPod"
    /\ last.arg = "web"
    /\ last.err = "ErrNoSuchPod"
    /\ valid[last.p]
    /\ ps[last.p]["pod"]
    /\ CfgWeb.ID \in Col(db.ContainerConfig, "ID")
    /\ db = pre

----------------------------------------------------------------------------
\* One process records, reads and prunes exit codes and refreshes the store
\* while the clock advances.

ExitIDs == {IdWeb, IdApp}

InitExit == InitWith({"p1"})

NextExit ==
    \/ Tick
    \/ \E p \in {"p1"} :
        \/ \E id \in ExitIDs, c \in ExitCodes : AddContainerExitCode(p, id, c)
        \/ \E id \in ExitIDs : GetContainerExitCode(p, id)
        \/ \E id \in ExitIDs : GetContainerExitCodeTimeStamp(p, id)
        \/ PruneContainerExitCodes(p)
        \/ RefreshStep(p)

SpecExit == InitExit /\ [][NextExit]_vars

\* The exit-code records of a container.
ExitRows(d, id) == {r \in d.ContainerExitCode : r.ID = id}

\* The step is a call of `op` that ran in one step and has returned.
Called(op) == pc' = pc /\ now' = now /\ last'.op = op

\* The step is the commit of a Refresh.
RefreshCommits == \E p \in Procs : pc[p][1] = "Refresh" /\ pc'[p] = IdlePC

\* C19: a successful AddContainerExitCode(id, code) stores the one record
\* (id, time of the call, code); a stored record stays until a Refresh or a
\* Prune called after the record's age has passed the retention window; and a
\* read that the driver does not fail returns the code (GetContainerExitCode)
\* or the recording time (GetContainerExitCodeTimeStamp) of the stored
\* record, and for an id with no record the no-such-exit-code error and no
\* value.
ExitCodeRoundTrip ==
    [][/\ (Called("AddContainerExitCode") /\ last'.err = "nil") =>
            db'.ContainerExitCode = db.ContainerExitCode \cup
                {[ID |-> last'.arg[1], Timestamp |-> now,
                  ExitCode |-> last'.arg[2]]}
       /\ \A id \in ExitIDs : Cardinality(ExitRows(db', id)) <= 1
       /\ \A r \in db.ContainerExitCode \ db'.ContainerExitCode :
            \/ RefreshCommits
            \/ /\ Called("PruneContainerExitCodes")
               /\ now - r.Timestamp > FiveMinutes
       /\ \A op \in {"GetContainerExitCode", "GetContainerExitCodeTimeStamp"} :
            (Called(op) /\ last'.err # "sqlError") =>
                LET rows == ExitRows(db, last'.arg) IN
                /\ rows = {} => /\ last'.err = "ErrNoSuchExitCode"
                                /\ last'.out = NoExitCode
                /\ rows # {} =>
                      /\ last'.err = "nil"
                      /\ \E r \in rows :
                            last'.out = IF op = "GetContainerExitCode"
                                        THEN r.ExitCode ELSE r.Timestamp
      ]_vars

\* C20: a PruneContainerExitCodes that returns without error leaves exactly
\* the records that were stored before the call and whose age at the time of
\* the call does not exceed the five-minute window; and no step other than a
\* Prune or a Refresh removes a record, the passage of time least of all.
PruneKeepsYoungRecords ==
    [][/\ (Called("PruneContainerExitCodes") /\ last'.err = "nil") =>
            db'.ContainerExitCode =
                {r \in db.ContainerExitCode : now - r.Timestamp <= FiveMinutes}
       /\ (db.ContainerExitCode \ db'.ContainerExitCode # {}) =>
            (RefreshCommits \/ Called("PruneContainerExitCodes"))
       /\ now' # now => db' = db
      ]_vars

----------------------------------------------------------------------------
\* One process adds, reads and removes the exec sessions of two containers.

InitExec == InitWith({"p1"})

NextExec ==
    \E p \in {"p1"} :
        \/ \E h \in CtrHandles, sid \in ExecIDs : AddExecSession(p, h, sid)
        \/ \E sid \in ExecIDs : GetExecSession(p, sid)
        \/ \E sid \in ExecIDs : RemoveExecSession(p, sid)
        \/ \E h \in CtrHandles : GetContainerExecSessions(p, h)
        \/ \E h \in CtrHandles : RemoveContainerExecSessions(p, h)

SpecExec == InitExec /\ [][NextExec]_vars

\* The stored exec sessions with the ID.
ExecRows(d, sid) == {r \in d.ContainerExecSession : r.ID = sid}

\* C21: a successful AddExecSession(ctr, s) stores the one association of
\* s.Id with ctr's ID, and an association stays until a RemoveExecSession of
\* its session succeeds; GetExecSession, when the driver does not fail it,
\* returns the stored container ID, and no-such-exec-session when there is
\* none; a successful GetContainerExecSessions returns the IDs of the
\* sessions stored for the container; a successful RemoveExecSession leaves
\* no association of the session, and one of a session that is not stored
\* returns no-such-exec-session and leaves every table as it was.
ExecSessionRoundTrip ==
    [][/\ (Called("AddExecSession") /\ last'.err = "nil") =>
            db'.ContainerExecSession = db.ContainerExecSession \cup
                {[ID |-> last'.arg[2],
                  ContainerID |-> CtrConfigOf(last'.arg[1]).ID]}
       /\ \A sid \in ExecIDs : Cardinality(ExecRows(db', sid)) <= 1
       /\ \A r \in db.ContainerExecSession \ db'.ContainerExecSession :
            /\ Called("RemoveExecSession")
            /\ last'.arg = r.ID
            /\ last'.err = "nil"
       /\ (Called("GetExecSession") /\ last'.err # "sqlError") =>
            LET rows == ExecRows(db, last'.arg) IN
            /\ rows = {} => /\ last'.err = "ErrNoSuchExecSession"
                            /\ last'.out = NoText
            /\ rows # {} => /\ last'.err = "nil"
                            /\ \E r \in rows : last'.out = r.ContainerID
       /\ (Called("GetContainerExecSessions") /\ last'.err = "nil") =>
            last'.out = {r.ID : r \in {e \in db.ContainerExecSession :
                            e.ContainerID = CtrConfigOf(last'.arg).ID}}
       /\ Called("RemoveExecSession") =>
            /\ last'.err = "nil" => /\ ExecRows(db, last'.arg) # {}
                                    /\ ExecRows(db', last'.arg) = {}
            /\ (ExecRows(db, last'.arg) = {} /\ last'.err # "sqlError") =>
                  /\ last'.err = "ErrNoSuchExecSession"
                  /\ db' = db
      ]_vars

\* RemoveExecSession removed one of two stored sessions.
ExecSessionRoundTripWitness ==
    /\ last.op = "RemoveExecSession"
    /\ last.err = "nil"
    /\ Cardinality(pre.ContainerExecSession) = 2
    /\ Cardinality(db.ContainerExecSession) = 1
    /\ ExecRows(db, last.arg) = {}


----------------------------------------------------------------------------
\* Two processes open the same store, each with a runtime configuration of
\* its own, and validate and read the database configuration; the first
\* also records exec sessions and refreshes the store.

InitConfig ==
    /\ db = EmptyDB
    /\ tx = [p \in Procs |-> NoTx]
    /\ pc = [p \in Procs |-> IdlePC]
    /\ valid = [p \in Procs |-> TRUE]
    /\ conn = [p \in Procs |-> "open"]
    /\ hs = [p \in Procs |->
               [h \in AllCtrHandles |->
                   [valid |-> TRUE, state |-> NewContainerState]]]
    /\ vs = [p \in Procs |->
               [h \in VolHandles |-> [valid |-> TRUE, state |-> NewVolumeState]]]
    /\ ps = [p \in Procs |-> [h \in PodHandles |-> TRUE]]
    /\ last = NoCall
    /\ pre = EmptyDB
    /\ now = 0
    /\ rt \in [Procs -> Runtimes]
    /\ active = Procs

NextConfig ==
    \/ \E p \in Procs :
        \/ ValidateDBConfigStep(p)
        \/ GetDBConfig(p)
    \/ \E sid \in {<<"e", "1">>} : AddExecSession("p1", "web", sid)
    \/ RefreshStep("p1")

SpecConfig == InitConfig /\ [][NextConfig]_vars

\* The step commits the transaction of p's ValidateDBConfig.
ValidateCommits(p) ==
    /\ pc[p][1] = "ValidateDBConfig"
    /\ pc[p][2] = 3
    /\ pc'[p] = IdlePC
    /\ last'.p = p
    /\ last'.err = "nil"

\* C22: the DBConfig table changes only in the commit of the transaction of
\* a ValidateDBConfig, only while it holds no row, and then to the one row of
\* the committing store's runtime; so a stored row is never changed or
\* deleted and the table never holds more than one row.
DBConfigWrittenOnce ==
    [][/\ db'.DBConfig # db.DBConfig =>
            /\ db.DBConfig = {}
            /\ \E p \in Procs :
                  /\ ValidateCommits(p)
                  /\ db'.DBConfig = {DBConfigRow(RuntimeValues(rt[p]))}
       /\ Cardinality(db'.DBConfig) <= 1
      ]_vars

\* A ValidateDBConfig found no row, and another store's row was committed
\* before its own INSERT, which was refused.
DBConfigWrittenOnceWitness ==
    /\ last.op = "ValidateDBConfig"
    /\ last.p = "p2"
    /\ last.err = "sqlConstraint"
    /\ db.DBConfig = {DBConfigRow(RuntimeValues(rt["p1"]))}
    /\ rt["p1"] # rt["p2"]

\* The fields ValidateDBConfig compares, in the order in which a mismatch is
\* reported: the reported name and the column.
ComparedFields ==
    << <<"os", "Os">>, <<"static dir", "StaticDir">>, <<"tmp dir", "TmpDir">>,
       <<"graph root", "GraphRoot">>, <<"run root", "RunRoot">>,
       <<"graph driver", "GraphDriver">>, <<"volume path", "VolumeDir">> >>

\* C23: a ValidateDBConfig that reads a stored row returns nil exactly when
\* each of the seven fields of the row equals the runtime's value; otherwise
\* it returns the config-mismatch error with the name of the first field, in
\* the order os, static dir, tmp dir, graph root, run root, graph driver,
\* volume path, that differs, the stored and the runtime value; and it leaves
\* the row as it was.
DBConfigMismatch ==
    [][(/\ Called("ValidateDBConfig")
        /\ db.DBConfig # {}
        /\ last'.q
        /\ last'.err # "sqlError") =>
            \A row \in db.DBConfig :
                LET ours == RuntimeValues(rt[last'.p])
                    differs(i) == row[ComparedFields[i][2]] #
                                      ours[ComparedFields[i][2]]
                IN /\ last'.err = "nil" <=>
                          \A i \in DOMAIN ComparedFields : ~differs(i)
                   /\ \A i \in DOMAIN ComparedFields :
                        (differs(i) /\ \A j \in 1..(i - 1) : ~differs(j)) =>
                            /\ last'.err = "ErrDBBadConfig"
                            /\ last'.out = <<ComparedFields[i][1],
                                             row[ComparedFields[i][2]],
                                             ours[ComparedFields[i][2]]>>
                   /\ db' = db
      ]_vars

\* A store whose runtime differs from the recorded one in the tmp dir and in
\* the run root was refused for the tmp dir.
DBConfigMismatchWitness ==
    /\ last.op = "ValidateDBConfig"
    /\ last.err = "ErrDBBadConfig"
    /\ last.out[1] = "tmp dir"
    /\ \E row \in db.DBConfig :
          /\ row.TmpDir # RuntimeValues(rt[last.p]).TmpDir
          /\ row.RunRoot # RuntimeValues(rt[last.p]).RunRoot
          /\ last.out[2] = row.TmpDir

\* C24: GetDBConfig never changes a table; when the driver does not fail it,
\* it returns without error the empty configuration while no row is stored,
\* and otherwise the static dir, tmp dir, graph root, run root, graph driver
\* and volume path of the stored row, which are the values the first
\* successful ValidateDBConfig recorded from its runtime.
GetDBConfigReturnsRecorded ==
    [][/\ Called("GetDBConfig") =>
            /\ db' = db
            /\ (valid[last'.p] /\ last'.err # "sqlError") =>
                  /\ last'.err = "nil"
                  /\ db.DBConfig = {} => last'.out = EmptyDBConfig
                  /\ \A row \in db.DBConfig :
                        /\ last'.out.LibpodRoot = row.StaticDir
                        /\ last'.out.LibpodTmp = row.TmpDir
                        /\ last'.out.StorageRoot = row.GraphRoot
                        /\ last'.out.StorageTmp = row.RunRoot
                        /\ last'.out.GraphDriver = row.GraphDriver
                        /\ last'.out.VolumePath = row.VolumeDir
       /\ \A p \in Procs : (ValidateCommits(p) /\ db.DBConfig = {}) =>
            \E row \in db'.DBConfig :
                LET v == RuntimeValues(rt[p]) IN
                /\ row.StaticDir = v.StaticDir
                /\ row.TmpDir = v.TmpDir
                /\ row.GraphRoot = v.GraphRoot
                /\ row.RunRoot = v.RunRoot
                /\ row.GraphDriver = v.GraphDriver
                /\ row.VolumeDir = v.VolumeDir
       /\ \A row \in db.DBConfig : row \in db'.DBConfig
      ]_vars

\* GetDBConfig returned the configuration recorded by another store, whose
\* runtime named no graph root, no run root and no driver.
GetDBConfigReturnsRecordedWitness ==
    /\ last.op = "GetDBConfig"
    /\ last.p = "p2"
    /\ last.err = "nil"
    /\ rt["p1"] = RuntimeDefaults
    /\ rt["p2"] = RuntimeA
    /\ last.out.StorageRoot = Clean(NoText)
    /\ last.out.StorageTmp = Clean(NoText)
    /\ last.out.GraphDriver = StoreDefaults.GraphDriverName
    /\ last.out.LibpodTmp = RuntimeA.TmpDir


----------------------------------------------------------------------------
\* The tables reference only rows that exist: every state row and every
\* relationship row names a stored configuration, and a configuration has
\* at most one state row.
ReferencesExist(d) ==
    LET ctrs == {r.ID : r \in d.ContainerConfig}
        vols == {r.Name : r \in d.VolumeConfig}
    IN /\ \A r \in d.ContainerState : r.ID \in ctrs
       /\ \A r \in d.VolumeState : r.Name \in vols
       /\ \A r \in d.PodState : r.ID \in {c.ID : c \in d.PodConfig}
       /\ \A e \in d.ContainerDependency : e.ID \in ctrs /\ e.DependencyID \in ctrs
       /\ \A e \in d.ContainerVolume :
             e.ContainerID \in ctrs /\ e.VolumeName \in vols
       /\ \A id \in ctrs :
             Cardinality({r \in d.ContainerState : r.ID = id}) <= 1
       /\ \A n \in vols :
             Cardinality({r \in d.VolumeState : r.Name = n}) <= 1

\* No row of the database refers to the container.
NoTraceOfContainer(d, id) ==
    /\ \A r \in d.ContainerConfig \cup d.ContainerState : r.ID # id
    /\ \A e \in d.ContainerDependency : e.ID # id /\ e.DependencyID # id
    /\ \A e \in d.ContainerVolume : e.ContainerID # id

\* No row of the database refers to the volume.
NoTraceOfVolume(d, name) ==
    /\ \A r \in d.VolumeConfig \cup d.VolumeState : r.Name # name
    /\ \A e \in d.ContainerVolume : e.VolumeName # name

\* The step is the successful return of p's call of `op`.
Succeeds(p, op) ==
    /\ pc[p][1] = op
    /\ pc'[p] = IdlePC
    /\ last'.p = p
    /\ last'.err = "nil"

\* C25: the committed database that a successful RemoveContainer(c) or
\* RemoveVolume(v) leaves holds no configuration, state, dependency or usage
\* row that refers to the removed entity; and in every committed database
\* each state row and each relationship row refers to a stored
\* configuration and each configuration has at most one state row.
RemovalLeavesNoReference ==
    [][/\ ReferencesExist(db')
       /\ \A p \in Procs :
            /\ Succeeds(p, "RemoveContainer") =>
                  NoTraceOfContainer(db', CtrConfigOf(pc[p][3]).ID)
            /\ Succeeds(p, "RemoveVolume") =>
                  NoTraceOfVolume(db', VolConfigOf(pc[p][3]).Name)
      ]_vars

\* RemoveContainer removed, with its edges, the container that depended on
\* another container and used the volume; both of those are still stored.
RemovalLeavesNoReferenceWitness ==
    /\ last.op = "RemoveContainer"
    /\ last.arg = "app"
    /\ last.err = "nil"
    /\ pre.ContainerDependency # {}
    /\ pre.ContainerVolume # {}
    /\ db.ContainerDependency = {}
    /\ db.ContainerVolume = {}
    /\ IdWeb \in Col(db.ContainerConfig, "ID")
    /\ NameVol \in Col(db.VolumeConfig, "Name")
    /\ NoTraceOfContainer(db, IdApp)


----------------------------------------------------------------------------
\* NewSqliteState.  pc[p][3] lists the steps of the construction that have
\* succeeded so far.

\* A database file in which no table has been created yet.
FreshFile == [Tables |-> {}]

\* sqliteInitTables: CREATE TABLE IF NOT EXISTS for every table.
sqliteInitTables(d) == IF d = FreshFile THEN EmptyDB ELSE d

\* The deferred conn.Close() and the return of no store.
NewSqliteStateFails(p, err) ==
    /\ conn' = [conn EXCEPT ![p] = "closed"]
    /\ Return(p, "NewSqliteState", "-", err,
              [steps |-> pc[p][3], state |-> "nil"], FALSE)

\* A step of the construction that changes no table: on success the next
\* step, on failure the deferred close and the return.
NewSqliteStateStep(p, k, name) ==
    /\ At(p, "NewSqliteState", k)
    /\ \E ok \in BOOLEAN :
           IF ok THEN /\ Goto(p, "NewSqliteState", k + 1, Append(pc[p][3], name))
                      /\ UNCHANGED <<last, conn>>
           ELSE NewSqliteStateFails(p, "sqlError")
    /\ UNCHANGED <<db, tx, valid, hs, vs, ps, pre, now, rt, active>>

\* state := new(SQLiteState); sql.Open.  A failure returns before the close
\* is deferred: there is no connection.
NewSqliteStateOpen(p) ==
    /\ Idle(p)
    /\ conn[p] # "open"
    /\ pre' = db
    /\ valid' = [valid EXCEPT ![p] = FALSE]
    /\ \E ok \in BOOLEAN :
           IF ok THEN /\ conn' = [conn EXCEPT ![p] = "open"]
                      /\ Goto(p, "NewSqliteState", 2, <<"Open">>)
                      /\ UNCHANGED last
           ELSE /\ Return(p, "NewSqliteState", "-", "sqlError",
                          [steps |-> <<>>, state |-> "nil"], FALSE)
                /\ UNCHANGED conn
    /\ UNCHANGED <<db, tx, hs, vs, ps, now, rt, active>>

\* state.conn.Ping()
NewSqliteStatePing(p) == NewSqliteStateStep(p, 2, "Ping")

\* PRAGMA foreign_keys = ON;  PRAGMA journal_mode = WAL;
\* PRAGMA synchronous = FULL;
NewSqliteStateForeignKeys(p) == NewSqliteStateStep(p, 3, "foreign_keys")
NewSqliteStateJournalMode(p) == NewSqliteStateStep(p, 4, "journal_mode")
NewSqliteStateSynchronous(p) == NewSqliteStateStep(p, 5, "synchronous")

\* A variant that goes on when the migration has failed.
NewSqliteStateMigrateIgnored(p) ==
    /\ At(p, "NewSqliteState", 6)
    /\ \E ok \in BOOLEAN :
           Goto(p, "NewSqliteState", 7,
                IF ok THEN Append(pc[p][3], "migrateSchemaIfNecessary")
                ELSE pc[p][3])
    /\ UNCHANGED <<db, tx, valid, conn, hs, vs, ps, last, pre, now, rt, active>>

\* state.migrateSchemaIfNecessary()
NewSqliteStateMigrate(p) ==
    NewSqliteStateStep(p, 6, "migrateSchemaIfNecessary")

\* sqliteInitTables(state.conn); state.valid = true; return state.
NewSqliteStateInitTables(p) ==
    /\ At(p, "NewSqliteState", 7)
    /\ \E ok \in BOOLEAN :
           IF ok THEN
               /\ db' = sqliteInitTables(db)
               /\ valid' = [valid EXCEPT ![p] = TRUE]
               /\ Return(p, "NewSqliteState", "-", "nil",
                         [steps |-> Append(pc[p][3], "sqliteInitTables"),
                          state |-> "state"], TRUE)
               /\ UNCHANGED conn
           ELSE
               /\ NewSqliteStateFails(p, "sqlError")
               /\ UNCHANGED <<db, valid>>
    /\ UNCHANGED <<tx, hs, vs, ps, pre, now, rt, active>>

\* Two processes build a store over the same file, new or initialised, use
\* it and close it, any number of times.
InitOpen ==
    /\ db \in {FreshFile, EmptyDB}
    /\ tx = [p \in Procs |-> NoTx]
    /\ pc = [p \in Procs |-> IdlePC]
    /\ valid = [p \in Procs |-> FALSE]
    /\ conn = [p \in Procs |-> "none"]
    /\ hs = [p \in Procs |->
               [h \in AllCtrHandles |->
                   [valid |-> TRUE, state |-> NewContainerState]]]
    /\ vs = [p \in Procs |->
               [h \in VolHandles |-> [valid |-> TRUE, state |-> NewVolumeState]]]
    /\ ps = [p \in Procs |-> [h \in PodHandles |-> TRUE]]
    /\ last = NoCall
    /\ pre = db
    /\ now = 0
    /\ rt = [p \in Procs |-> RuntimeA]
    /\ active = Procs

NextOpen ==
    \E p \in Procs :
        \/ NewSqliteStateOpen(p)
        \/ NewSqliteStatePing(p)
        \/ NewSqliteStateForeignKeys(p)
        \/ NewSqliteStateJournalMode(p)
        \/ NewSqliteStateSynchronous(p)
        \/ NewSqliteStateMigrate(p)
        \/ NewSqliteStateInitTables(p)
        \/ (valid[p] /\ GetDBConfig(p))
        \/ (valid[p] /\ Close(p))

SpecOpen == InitOpen /\ [][NextOpen]_vars

\* The steps of NewSqliteState in their order.
OpenOrder ==
    <<"Open", "Ping", "foreign_keys", "journal_mode", "synchronous",
      "migrateSchemaIfNecessary", "sqliteInitTables">>

Steps(log) == {log[i] : i \in DOMAIN log}

\* The step is a return of p's NewSqliteState.
NewSqliteStateReturns(p) ==
    /\ pc[p][1] \in {"idle", "NewSqliteState"}
    /\ pc'[p] = IdlePC
    /\ \A q \in Procs \ {p} : pc'[q] = pc[q]
    /\ last'.p = p
    /\ last'.op = "NewSqliteState"

\* C26: the steps of NewSqliteState succeed in the order connect, pragmas
\* (foreign keys, WAL, full sync), migrate schema, create tables; the tables
\* are created only in a construction whose migration has succeeded; a store
\* becomes valid only in the return of a construction all of whose steps
\* succeeded; and a construction that fails returns no store, leaves the
\* store invalid and leaves no connection open.
NewSqliteStateOrdered ==
    [][\A p \in Procs :
        /\ pc'[p][1] = "NewSqliteState" =>
              /\ pc'[p][3] = SubSeq(OpenOrder, 1, Len(pc'[p][3]))
              /\ pc'[p][2] = Len(pc'[p][3]) + 1
        /\ (pc[p][1] = "NewSqliteState" /\ pc[p][2] = 7 /\ pc'[p] # pc[p]) =>
              "migrateSchemaIfNecessary" \in Steps(pc[p][3])
        /\ db' # db =>
              \E q \in Procs :
                  /\ NewSqliteStateReturns(q)
                  /\ "migrateSchemaIfNecessary" \in Steps(pc[q][3])
        /\ (valid'[p] /\ ~valid[p]) =>
              /\ NewSqliteStateReturns(p)
              /\ last'.err = "nil"
              /\ last'.out.steps = OpenOrder
              /\ last'.out.state = "state"
              /\ conn'[p] = "open"
        /\ (NewSqliteStateReturns(p) /\ last'.err # "nil") =>
              /\ last'.out.state = "nil"
              /\ ~valid'[p]
              /\ conn'[p] # "open"
        /\ (NewSqliteStateReturns(p) /\ last'.err = "nil") => valid'[p]
      ]_vars

\* A construction failed in the migration on a new file: no table exists,
\* the store is invalid and its connection is closed, while the other
\* process is still setting its pragmas.
NewSqliteStateOrderedWitness ==
    /\ last.op = "NewSqliteState"
    /\ last.err = "sqlError"
    /\ last.out.steps = SubSeq(OpenOrder, 1, 5)
    /\ db = FreshFile
    /\ ~valid[last.p]
    /\ conn[last.p] = "closed"
    /\ \E q \in Procs \ {last.p} : pc[q][1] = "NewSqliteState" /\ pc[q][2] = 4


----------------------------------------------------------------------------
\* One process adds and removes two containers and a volume and asks which
\* containers use them.

InitInUse == InitWith({"p1"})

NextInUse ==
    \E p \in {"p1"} :
        \/ EntityStep(p)
        \/ \E h \in CtrHandles : ContainerInUse(p, h)
        \/ \E h \in VolHandles : VolumeInUse(p, h)

SpecInUse == InitInUse /\ [][NextInUse]_vars

\* The containers with a dependency edge that targets the container, and
\* the containers with a usage edge that names the volume.
EdgesTo(d, id) ==
    {c \in Col(d.ContainerDependency, "ID") :
        \E e \in d.ContainerDependency : e.ID = c /\ e.DependencyID = id}
EdgesOn(d, name) ==
    {c \in Col(d.ContainerVolume, "ContainerID") :
        \E e \in d.ContainerVolume : e.ContainerID = c /\ e.VolumeName = name}

\* The step is the in-use guard of p's removal `op`, and the driver does not
\* fail it.
GuardRuns(p, op) ==
    /\ pc[p][1] = op
    /\ pc[p][2] = 1
    /\ pc'[p] # pc[p]
    /\ ~(pc'[p] = IdlePC /\ last'.err = "sqlError")

\* The step returns from p's call with the in-use error `err`.
Blocked(p, err) == pc'[p] = IdlePC /\ last'.p = p /\ last'.err = err

\* C27: a successful ContainerInUse(c) returns the IDs of the containers
\* that have a dependency edge targeting c and a successful VolumeInUse(v)
\* the IDs of the containers with a usage edge naming v, and neither changes
\* a table; and on a store in the same state the guard of RemoveContainer(c)
\* or RemoveVolume(v) blocks the removal exactly when that set is not empty.
InUseIsTheGuard ==
    [][/\ Called("ContainerInUse") =>
            /\ db' = db
            /\ last'.err = "nil" =>
                  last'.out = EdgesTo(db, CtrConfigOf(last'.arg).ID)
       /\ Called("VolumeInUse") =>
            /\ db' = db
            /\ last'.err = "nil" =>
                  last'.out = EdgesOn(db, VolConfigOf(last'.arg).Name)
       /\ \A p \in Procs :
            /\ GuardRuns(p, "RemoveContainer") =>
                  (Blocked(p, "ErrDepExists") <=>
                       EdgesTo(db, CtrConfigOf(pc[p][3]).ID) # {})
            /\ GuardRuns(p, "RemoveVolume") =>
                  (Blocked(p, "ErrVolumeBeingUsed") <=>
                       EdgesOn(db, VolConfigOf(pc[p][3]).Name) # {})
      ]_vars

\* ContainerInUse named the one dependent of a container while the volume
\* that dependent mounts is stored as well.
InUseIsTheGuardWitness ==
    /\ last.op = "ContainerInUse"
    /\ last.arg = "web"
    /\ last.err = "nil"
    /\ last.out = {IdApp}
    /\ EdgesOn(db, NameVol) = {IdApp}
    /\ db = pre


----------------------------------------------------------------------------
\* One process adds and removes containers, saves their states and lists
\* the stored containers with and without their states.

InitAll == InitWith({"p1"})

NextAll ==
    \E p \in {"p1"} :
        \/ EntityStep(p)
        \/ \E h \in CtrHandles, st \in {RunningState, StoppedState} :
               SaveContainer(p, h, st)
        \/ \E loadState \in BOOLEAN : AllContainers(p, loadState)

SpecAll == InitAll /\ [][NextAll]_vars

\* The handle AllContainers owes for a stored configuration row.
HandleOwed(d, r, loadState) ==
    [valid |-> TRUE,
     config |-> UnmarshalCtrConfig(r.JSON),
     state |-> IF loadState
               THEN UnmarshalCtrState(
                        (CHOOSE x \in d.ContainerState : x.ID = r.ID).JSON)
               ELSE NewContainerState]

\* C28: AllContainers never changes a table, and when the driver does not
\* fail it returns one handle for each stored container, with the stored
\* configuration and with the persisted state when loadState is set and a
\* freshly initialised state when it is not.
AllContainersReturnsAll ==
    [][Called("AllContainers") =>
          /\ db' = db
          /\ last'.err # "sqlError" =>
                /\ last'.err = "nil"
                /\ last'.out =
                       {HandleOwed(db, r, last'.arg) : r \in db.ContainerConfig}
      ]_vars


----------------------------------------------------------------------------
\* One process adds and removes containers and a volume, updates the volume
\* handle (which a missing row invalidates), calls the operations that are
\* not implemented with a live or a removed pod, and closes the store.

InitStubs ==
    \E live \in BOOLEAN :
        /\ db = EmptyDB
        /\ tx = [p \in Procs |-> NoTx]
        /\ pc = [p \in Procs |-> IdlePC]
        /\ valid = [p \in Procs |-> TRUE]
        /\ conn = [p \in Procs |-> "open"]
        /\ hs = [p \in Procs |->
                   [h \in AllCtrHandles |->
                       [valid |-> TRUE, state |-> NewContainerState]]]
        /\ vs = [p \in Procs |->
                   [h \in VolHandles |->
                       [valid |-> TRUE, state |-> NewVolumeState]]]
        /\ ps = [p \in Procs |-> [h \in PodHandles |-> live]]
        /\ last = NoCall
        /\ pre = EmptyDB
        /\ now = 0
        /\ rt = [p \in Procs |-> RuntimeA]
        /\ active = {"p1"}

NextStubs ==
    \E p \in {"p1"} :
        \/ EntityStep(p)
        \/ Close(p)
        \/ \E id \in {NoText, IdPod} : Pod(p, id)
        \/ \E id \in {NoText, IdPod} : HasPod(p, id)
        \/ \E pod \in PodHandles, id \in {NoText, IdWeb} :
               PodHasContainer(p, pod, id)
        \/ \E pod \in PodHandles : PodContainersByID(p, pod)
        \/ \E pod \in PodHandles : PodContainers(p, pod)
        \/ \E pod \in PodHandles : AddPod(p, pod)
        \/ \E pod \in PodHandles : RemovePod(p, pod)
        \/ \E pod \in PodHandles : RemovePodContainers(p, pod)
        \/ \E pod \in PodHandles : UpdatePod(p, pod)
        \/ \E pod \in PodHandles : SavePod(p, pod)
        \/ \E pod \in PodHandles : RewritePodConfig(p, pod)
        \/ AllPods(p)
        \/ \E h \in VolHandles : RewriteVolumeConfig(p, h)
        \/ \E h \in VolHandles : UpdateVolume(p, h)

SpecStubs == InitStubs /\ [][NextStubs]_vars

\* The operations that are not implemented: those that take a pod, and all
\* of them.
PodHandleOps ==
    {"AddPod", "RemovePod", "RemovePodContainers", "PodContainersByID",
     "PodContainers", "UpdatePod", "SavePod", "RewritePodConfig"}
StubOps ==
    PodHandleOps \cup
        {"HasPod", "Pod", "PodHasContainer", "AllPods", "RewriteVolumeConfig"}

\* The ID the call just made was given, if it takes one.
StubID ==
    IF last'.op \in {"HasPod", "Pod"} THEN last'.arg
    ELSE IF last'.op = "PodHasContainer" THEN last'.arg[2]
    ELSE IdPod

\* The handle given to the call just made was live when it was made, and the
\* error the operation has for a removed one.
StubLive ==
    IF last'.op \in PodHandleOps THEN ps[last'.p][last'.arg]
    ELSE IF last'.op = "PodHasContainer" THEN ps[last'.p][last'.arg[1]]
    ELSE IF last'.op = "RewriteVolumeConfig" THEN vs[last'.p][last'.arg].valid
    ELSE TRUE
StubRemoved ==
    IF last'.op = "RewriteVolumeConfig" THEN "ErrVolumeRemoved"
    ELSE "ErrPodRemoved"

\* C29: a call of one of the pod operations, of RewritePodConfig or of
\* RewriteVolumeConfig changes neither a table nor a handle, and with an ID
\* that is not empty it returns the not-implemented error exactly when the
\* store is open and the handle is live, the store-closed error when the
\* store is closed and the handle is live, the removed-handle error when the
\* store is open and the handle is removed, and one of these two when the
\* store is closed and the handle is removed.
StubsAreNotImplemented ==
    [][(\E op \in StubOps : Called(op)) =>
          /\ db' = db
          /\ hs' = hs
          /\ vs' = vs
          /\ ps' = ps
          /\ StubID # NoText =>
                LET open == valid[last'.p] IN
                /\ (open /\ StubLive) => last'.err = "ErrNotImplemented"
                /\ (~open /\ StubLive) => last'.err = "ErrDBClosed"
                /\ (open /\ ~StubLive) => last'.err = StubRemoved
                /\ (~open /\ ~StubLive) =>
                      last'.err \in {"ErrDBClosed", StubRemoved}
      ]_vars

\* PodHasContainer was asked about a stored container of a live pod on an
\* open store, and answered that it is not implemented.
StubsAreNotImplementedWitness ==
    /\ last.op = "PodHasContainer"
    /\ last.arg = <<"pod", IdWeb>>
    /\ last.err = "ErrNotImplemented"
    /\ valid[last.p]
    /\ ps[last.p]["pod"]
    /\ \E r \in db.ContainerConfig : r.ID = IdWeb


----------------------------------------------------------------------------
\* One process refreshes the store while another adds a container and a
\* volume and saves their states.

InitRace == InitWith({"p1", "p2"})

NextRace ==
    \/ RefreshStep("p1")
    \/ \E p \in {"p2"} :
        \/ \E h \in {"web"} : AddContainer(p, h)
        \/ addContainerConfig(p)
        \/ addContainerState(p)
        \/ addContainerEdges(p)
        \/ addContainerCommit(p)
        \/ \E h \in {"web"}, st \in {RunningState, StoppedState} :
               SaveContainer(p, h, st)
        \/ \E h \in VolHandles : AddVolumeBegin(p, h)
        \/ AddVolumeInsertConfig(p)
        \/ AddVolumeInsertState(p)
        \/ AddVolumeCommit(p)
        \/ \E h \in VolHandles, st \in {MountedVolumeState} :
               SaveVolume(p, h, st)

SpecRace == InitRace /\ [][NextRace]_vars

\* The step begins the write transaction of p's Refresh.
RefreshBegins(p) ==
    /\ pc[p][1] = "Refresh"
    /\ pc[p][2] = 1
    /\ pc'[p][1] = "Refresh"
    /\ pc'[p][2] = 2

\* C30: when the write transaction of a Refresh begins, the value the
\* Refresh is going to write for each container and each volume is the reset
\* of the latest value committed for it, so the reset of a value that another
\* process has replaced since Refresh read it is never written.
RefreshWritesLatest ==
    [][\A p \in Procs : RefreshBegins(p) =>
          /\ pc[p][3].ctr = RefreshMaps(db).ctr
          /\ pc[p][3].vol = RefreshMaps(db).vol
      ]_vars


----------------------------------------------------------------------------
\* The valid flag of a handle (specification SpecHandles).

\* The rows that back a container handle and a volume handle.
CtrRowsOf(d, h) ==
    {r \in d.ContainerConfig \cup d.ContainerState : r.ID = CtrConfigOf(h).ID}
VolRowsOf(d, h) ==
    {r \in d.VolumeConfig \cup d.VolumeState : r.Name = VolConfigOf(h).Name}

\* C31: the valid flag of a container or volume handle only moves from live
\* to invalidated: a handle that is invalidated stays so, and a live handle
\* is invalidated only by a call of its own store that was given the handle,
\* found no row of the handle's container or volume in the store and returns
\* the not-found error; so no call invalidates a handle whose row exists.
ValidOnlyFalls ==
    [][\A p \in Procs :
          /\ \A h \in AllCtrHandles :
                /\ ~hs[p][h].valid => ~hs'[p][h].valid
                /\ (hs[p][h].valid /\ ~hs'[p][h].valid) =>
                      /\ pc' = pc
                      /\ db' = db
                      /\ last'.p = p
                      /\ last'.op \in CtrHandleOps
                      /\ CalledHandle(last') = h
                      /\ last'.err = "ErrNoSuchCtr"
                      /\ CtrRowsOf(db, h) = {}
          /\ \A h \in VolHandles :
                /\ ~vs[p][h].valid => ~vs'[p][h].valid
                /\ (vs[p][h].valid /\ ~vs'[p][h].valid) =>
                      /\ pc' = pc
                      /\ db' = db
                      /\ last'.p = p
                      /\ last'.op \in VolHandleOps
                      /\ CalledHandle(last') = h
                      /\ last'.err = "ErrNoSuchVolume"
                      /\ VolRowsOf(db, h) = {}
      ]_vars

\* The container handle was invalidated earlier and has stayed so, and an
\* UpdateVolume that found no row of the volume has just invalidated the
\* volume handle.
ValidOnlyFallsWitness ==
    /\ ~hs["p1"]["web"].valid
    /\ ~vs["p1"]["vol"].valid
    /\ VolRowsOf(db, "vol") = {}
    /\ last.op = "UpdateVolume"
    /\ last.err = "ErrNoSuchVolume"
    /\ db = pre


----------------------------------------------------------------------------
\* Two processes hold a handle each to the same two containers: the first
\* adds them, with the volume one of them mounts, and saves their states,
\* and both re-read the states.

InitSave == InitWith({"p1", "p2"})

NextSave ==
    \/ \E h \in CtrHandles : AddContainer("p1", h)
    \/ addContainerConfig("p1")
    \/ addContainerState("p1")
    \/ addContainerEdges("p1")
    \/ addContainerCommit("p1")
    \/ \E h \in VolHandles : AddVolumeBegin("p1", h)
    \/ AddVolumeInsertConfig("p1")
    \/ AddVolumeInsertState("p1")
    \/ AddVolumeCommit("p1")
    \/ \E st \in {RunningState, StoppedState} : SaveContainer("p1", "web", st)
    \/ \E st \in {RunningState} : SaveContainer("p1", "app", st)
    \/ \E p \in Procs : UpdateContainer(p, "web")

SpecSave == InitSave /\ [][NextSave]_vars

\* The database with the State row of the container of handle h holding the
\* state st, and every other row as it is.
WithState(d, h, st) ==
    [d EXCEPT !.ContainerState =
        {IF r.ID = CtrConfigOf(h).ID
         THEN [ID |-> r.ID, JSON |-> MarshalCtrState(st)]
         ELSE r : r \in @}]

\* C32: unless the driver fails it, a SaveContainer on a live handle whose
\* State row exists succeeds and stores the state the handle holds as that
\* row, every other row staying as it was; and an UpdateContainer that comes
\* right after a successful SaveContainer, on a live handle that another
\* process holds to the same container, succeeds unless the driver fails it
\* and leaves its handle with the state of the handle that was saved.
SaveThenUpdate ==
    [][/\ (/\ Called("SaveContainer")
           /\ valid[last'.p]
           /\ hs[last'.p][last'.arg].valid
           /\ StateRowsOf(db, last'.arg) # {}
           /\ last'.err # "sqlError") =>
              /\ last'.err = "nil"
              /\ hs'[last'.p][last'.arg].valid
              /\ db' = WithState(db, last'.arg, hs'[last'.p][last'.arg].state)
       /\ (/\ Called("UpdateContainer")
           /\ last.op = "SaveContainer"
           /\ last.err = "nil"
           /\ last'.arg = last.arg
           /\ last'.p # last.p
           /\ valid[last'.p]
           /\ hs[last'.p][last'.arg].valid
           /\ last'.err # "jsonError") =>
              /\ last'.err = "nil"
              /\ hs'[last'.p][last'.arg].valid
              /\ hs'[last'.p][last'.arg].state = hs[last.p][last.arg].state
      ]_vars

\* The first process saved the stopped state of one container while the
\* other container's row held the running state, and the second process,
\* whose handle held the fresh state, has re-read the stopped state.
SaveThenUpdateWitness ==
    /\ last.op = "UpdateContainer"
    /\ last.p = "p2"
    /\ last.arg = "web"
    /\ last.err = "nil"
    /\ last.rep = FALSE
    /\ hs["p1"]["web"].state = StoppedState
    /\ hs["p2"]["web"].state = StoppedState
    /\ StateRowsOf(db, "web") =
           {[ID |-> IdWeb, JSON |-> MarshalCtrState(StoppedState)]}
    /\ StateRowsOf(db, "app") =
           {[ID |-> IdApp, JSON |-> MarshalCtrState(RunningState)]}


----------------------------------------------------------------------------
\* Two processes hold a handle each to the same volume: the first adds it
\* and saves its state, and both remove it and re-read the state.

InitVolume == InitWith({"p1", "p2"})

NextVolume ==
    \/ VolumeStep("p1")
    \/ \E p \in Procs, h \in VolHandles : UpdateVolume(p, h)
    \/ \E h \in VolHandles : RemoveVolumeBegin("p2", h)
    \/ RemoveVolumeQueryUsers("p2")
    \/ RemoveVolumeDeleteConfig("p2")
    \/ RemoveVolumeDeleteState("p2")
    \/ RemoveVolumeCommit("p2")

SpecVolume == InitVolume /\ [][NextVolume]_vars

VolStateRowsOf(d, h) == {r \in d.VolumeState : r.Name = VolConfigOf(h).Name}

\* C33: unless the driver fails it, a SaveVolume on a live handle whose
\* VolumeState row exists succeeds, leaves the handle live and stores the
\* state the handle holds as that row, and a SaveVolume on a live handle
\* whose row is missing returns the no-such-volume error and invalidates the
\* handle; and an UpdateVolume that comes right after a successful
\* SaveVolume, on the live handle another process holds to the volume,
\* leaves that handle with the state that was saved.
SaveVolumeStores ==
    [][/\ (/\ Called("SaveVolume")
           /\ valid[last'.p]
           /\ vs[last'.p][last'.arg].valid
           /\ last'.err # "sqlError") =>
              IF VolStateRowsOf(db, last'.arg) # {}
              THEN /\ last'.err = "nil"
                   /\ vs'[last'.p][last'.arg].valid
                   /\ VolStateRowsOf(db', last'.arg) =
                          {[Name |-> VolConfigOf(last'.arg).Name,
                            JSON |-> MarshalVolState(
                                         vs'[last'.p][last'.arg].state)]}
              ELSE /\ last'.err = "ErrNoSuchVolume"
                   /\ ~vs'[last'.p][last'.arg].valid
                   /\ db' = db
       /\ (/\ Called("UpdateVolume")
           /\ last.op = "SaveVolume"
           /\ last.err = "nil"
           /\ last'.arg = last.arg
           /\ last'.p # last.p
           /\ valid[last'.p]
           /\ vs[last'.p][last'.arg].valid
           /\ last'.err # "sqlError") =>
              /\ last'.err = "nil"
              /\ vs'[last'.p][last'.arg].state = vs[last.p][last.arg].state
      ]_vars


----------------------------------------------------------------------------
\* Removing the exec sessions of one container (specification SpecExec).

\* The exec sessions recorded for the container of handle h.
SessionsOf(d, h) ==
    {r \in d.ContainerExecSession : r.ContainerID = CtrConfigOf(h).ID}

\* C34: unless the driver fails it, a RemoveContainerExecSessions on a live
\* handle succeeds; afterwards GetContainerExecSessions of the container
\* returns no session and GetExecSession of each of its former sessions
\* fails with the no-such-session error, while the sessions of every other
\* container, and every other table, are as they were.
RemoveContainerExecSessionsClears ==
    [][(/\ Called("RemoveContainerExecSessions")
        /\ valid[last'.p]
        /\ hs[last'.p][last'.arg].valid
        /\ last'.err # "sqlError") =>
           LET h == last'.arg
               id == CtrConfigOf(h).ID
           IN /\ last'.err = "nil"
              /\ GetContainerExecSessionsDo(db', TRUE, hs'[last'.p][h], id, 0).out
                     = {}
              /\ \A r \in SessionsOf(db, h) :
                    GetExecSessionDo(db', TRUE, r.ID, 0).err =
                        "ErrNoSuchExecSession"
              /\ db' = [db EXCEPT !.ContainerExecSession = @ \ SessionsOf(db, h)]
      ]_vars


----------------------------------------------------------------------------
\* The storage defaults in the database configuration (specification
\* SpecConfig).

\* A configured storage path, or the storage library's default for it when
\* none is configured.
OrDefault(path, default) == IF path = NoText THEN default ELSE Clean(path)

\* C35: the row that the first ValidateDBConfig records holds, for a graph
\* root, a run root or a graph driver that the runtime leaves empty, the
\* storage library's default for the field; and a later ValidateDBConfig of
\* a runtime that leaves them empty is not refused when the stored graph
\* root, run root and graph driver are those defaults and the other fields
\* match.
DefaultsAreRecorded ==
    [][/\ \A p \in Procs : (ValidateCommits(p) /\ db.DBConfig = {}) =>
            \E row \in db'.DBConfig :
                /\ row.GraphRoot =
                       OrDefault(rt[p].GraphRoot, StoreDefaults.GraphRoot)
                /\ row.RunRoot =
                       OrDefault(rt[p].RunRoot, StoreDefaults.RunRoot)
                /\ row.GraphDriver =
                       IF rt[p].GraphDriverName = ""
                       THEN StoreDefaults.GraphDriverName
                       ELSE rt[p].GraphDriverName
       /\ (/\ Called("ValidateDBConfig")
           /\ last'.q
           /\ last'.err # "sqlError") =>
              \A row \in db.DBConfig :
                  LET r == rt[last'.p] IN
                  (/\ row.Os = GOOS
                   /\ row.StaticDir = Clean(r.StaticDir)
                   /\ row.TmpDir = Clean(r.TmpDir)
                   /\ row.VolumeDir = Clean(r.VolumePath)
                   /\ row.GraphRoot =
                          OrDefault(r.GraphRoot, StoreDefaults.GraphRoot)
                   /\ row.RunRoot = OrDefault(r.RunRoot, StoreDefaults.RunRoot)
                   /\ row.GraphDriver =
                          IF r.GraphDriverName = ""
                          THEN StoreDefaults.GraphDriverName
                          ELSE r.GraphDriverName)
                  => last'.err = "nil"
      ]_vars


\* C36: a RemoveVolume succeeds only when the store held a Config row of
\* the volume for it to delete; for a volume that was never added, or that
\* another process has removed, it returns the no-such-volume error.
RemoveVolumeNeedsRow ==
    [][\A p \in Procs :
          /\ Succeeds(p, "RemoveVolume") =>
                \E r \in db.VolumeConfig : r.Name = VolConfigOf(pc[p][3]).Name
          /\ (/\ pc[p][1] = "RemoveVolume"
              /\ pc[p][2] = 4
              /\ pc'[p] = IdlePC
              /\ last'.err # "sqlError"
              /\ ~\E r \in db.VolumeConfig :
                     r.Name = VolConfigOf(pc[p][3]).Name) =>
                last'.err = "ErrNoSuchVolume"
      ]_vars


----------------------------------------------------------------------------
\* Two stores with the same runtime configuration (specification
\* SpecConfig).

\* C37: when the two runtimes have the same configuration, every
\* ValidateDBConfig that the driver does not fail returns success, and once
\* one has returned the store holds exactly the one row of that
\* configuration.
SameConfigBothSucceed ==
    [][\A p \in Procs :
          (/\ rt["p1"] = rt["p2"]
           /\ pc[p][1] = "ValidateDBConfig"
           /\ pc'[p] = IdlePC
           /\ last'.err # "sqlError") =>
              /\ last'.err = "nil"
              /\ db'.DBConfig = {DBConfigRow(RuntimeValues(rt[p]))}
      ]_vars


----------------------------------------------------------------------------
\* The open flag of the store (specification SpecStubs).

\* C38: a Close that returns success leaves the store marked closed, and a
\* Close that returns an error leaves the mark as it was; the mark changes
\* in no other step, and a store that is marked closed stays so.
CloseMarksClosed ==
    [][/\ Called("Close") =>
            /\ last'.err = "nil" => ~valid'[last'.p]
            /\ last'.err # "nil" => valid' = valid
            /\ \A p \in Procs \ {last'.p} : valid'[p] = valid[p]
            /\ db' = db
       /\ \A p \in Procs :
            /\ valid'[p] # valid[p] =>
                  /\ Called("Close")
                  /\ last'.p = p
                  /\ last'.err = "nil"
            /\ ~valid[p] => ~valid'[p]
      ]_vars

\* A Close failed and left the store marked open; the store has containers
\* stored.
CloseMarksClosedWitness ==
    /\ last.op = "Close"
    /\ last.err # "nil"
    /\ valid[last.p]
    /\ db.ContainerConfig # {}


----------------------------------------------------------------------------
\* One process adds and removes a container, re-reads its state (which
\* invalidates the handle when the container is gone), rewrites its
\* configuration with and without a new name, and closes the store.

InitRewrite == InitWith({"p1"})

\* The container's configuration under a new name.
CfgRenamed == [CfgWeb EXCEPT !.Name = <<"renamed">>]

NextRewrite ==
    \E p \in {"p1"} :
        \/ \E h \in {"web"} : AddContainer(p, h)
        \/ addContainerConfig(p)
        \/ addContainerState(p)
        \/ addContainerEdges(p)
        \/ addContainerCommit(p)
        \/ \E h \in {"web"} : RemoveContainer(p, h)
        \/ removeContainerGuard(p)
        \/ removeContainerDelete(p)
        \/ removeContainerCommit(p)
        \/ \E h \in {"web"} : UpdateContainer(p, h)
        \/ Close(p)
        \/ \E h \in {"web"}, oldName \in {NoText, CfgWeb.Name},
              newName \in {NoText, CfgWeb.Name, CfgRenamed.Name},
              newCfg \in {CfgWeb, CfgRenamed} :
               SafeRewriteContainerConfig(p, h, oldName, newName, newCfg)

SpecRewrite == InitRewrite /\ [][NextRewrite]_vars

\* C39: a SafeRewriteContainerConfig on a closed store returns the
\* store-closed error and on an open store with a removed handle the
\* removed-handle error, whatever the names are; on an open store with a
\* live handle it returns the invalid-argument error, having issued no
\* statement and changed neither the store nor the handle, when the new name
\* is not empty and differs from the name in the new configuration or the
\* old name is empty, and it never returns that error otherwise, in
\* particular not when the new name is empty.
SafeRewriteChecksNames ==
    [][Called("SafeRewriteContainerConfig") =>
          LET p == last'.p
              h == last'.arg[1]
              oldName == last'.arg[2]
              newName == last'.arg[3]
              newCfg == last'.arg[4]
              bad == /\ newName # NoText
                     /\ (newCfg.Name # newName \/ oldName = NoText)
          IN /\ ~valid[p] => last'.err = "ErrDBClosed"
             /\ (valid[p] /\ ~hs[p][h].valid) => last'.err = "ErrCtrRemoved"
             /\ (valid[p] /\ hs[p][h].valid /\ bad) =>
                   /\ last'.err = "ErrInvalidArg"
                   /\ ~last'.q
                   /\ db' = db
                   /\ hs' = hs
             /\ (valid[p] /\ hs[p][h].valid /\ ~bad) =>
                   last'.err # "ErrInvalidArg"
      ]_vars

\* A rename of a stored container whose new name matches the new
\* configuration was refused because no old name was given.
SafeRewriteChecksNamesWitness ==
    /\ last.op = "SafeRewriteContainerConfig"
    /\ last.err = "ErrInvalidArg"
    /\ last.arg[2] = NoText
    /\ last.arg[3] = CfgRenamed.Name
    /\ last.arg[4] = CfgRenamed
    /\ \E r \in db.ContainerConfig : r.ID = IdWeb
    /\ db = pre

====
